---------------------------- MODULE Spec2Model ----------------------------
(***************************************************************************)
(* A model of render_items.py (MU Online BMD renderer): the batch loop,    *)
(* the orientation (TRS) merge, the two container ciphers, the BMD parser, *)
(* the depth-buffered rasterizer and the bone world-matrix builder.        *)
(* Each part has its own specification over the shared variable list; the  *)
(* variables of the other parts stay at their idle values.                 *)
(***************************************************************************)
EXTENDS Integers, Sequences, FiniteSets, TLC

VARIABLES
    \* main() / process_item()
    tasks,      \* the task list built by main (name, model_file)
    fates,      \* what the file system and the file hold for each task
    mainI,      \* number of tasks the loop has consumed
    mainPc,     \* "loop" | "done" | "crashed" (an exception left the loop)
    success, failed, errors,
    results,    \* the tuples process_item returned, in call order
    \* load_trs_data() / _merge_custom_trs() / main() / _compute_view_matrix()
    trsTable,   \* the decoded records of itemtrsdata.bmd, keyed by item id
    customDoc,  \* custom_trs.json: << >> when the file is absent, else <<doc>>
    itemList,   \* the (section, index) pairs ItemList.xml lists
    trs,        \* the dict load_trs_data returns, keyed by (section, index)
    trsPc,      \* "load" | "tasks" | "render" | "done"
    taskEntry,  \* per listed item, the trs_entry main puts in its task
    view,       \* per rendered item, the view matrix (a product of factors)
    \* render_bmd() mesh loop / _rasterize_triangle()
    body_meshes, \* the meshes to draw, each with its projected vertices
    rMesh,      \* index of the mesh being drawn (1-based)
    rTri,       \* number of triangles of that mesh already drawn
    rPc,        \* "draw" | "done" | "crashed"
    color_buf,  \* pixel -> colour cell
    z_buf,      \* pixel -> depth, a fraction <<num, den>> or NegInf
    \* _xor_decrypt()
    xPlain,     \* the plaintext the input was encrypted from
    xData,      \* data: the ciphertext bytes
    xOut,       \* out: bytearray(len(data))
    xI,         \* number of loop iterations done
    xKey,       \* key: the running key
    xPc,        \* "loop" | "done"
    \* _lea_decrypt_ecb()
    leaKey,     \* key: 32 bytes
    leaPlain,   \* the plaintext the input was encrypted from
    leaData,    \* data: the ciphertext bytes
    leaRK,      \* RK: the 192 round subkeys
    leaOut,     \* out: bytearray(len(data))
    leaOff,     \* off: offset of the next block
    leaPc,      \* "schedule" | "blocks" | "done" | "raised"
    \* parse_bmd()
    fullFile,   \* the complete file the input was cut from
    raw,        \* raw: the bytes read from the file
    data,       \* data: the decrypted payload
    off,        \* off: the read cursor into data
    leaBlocksDone, \* blocks _lea_decrypt_ecb decrypted for this file
    counts,     \* mesh_count, bone_count, action_count
    cur_mesh,   \* the mesh being read: its counts and arrays so far
    meshes,     \* meshes
    actions_keys, \* actions_keys
    bones,      \* bones
    \* pPc: "open" | "header" | "mesh" | "verts" | "norms" | "uvs" | "tris" | "tex"
    \* | "actions" | "bones" | "return" | "returned" | "raised"
    pPc,
    \* _build_bone_world_matrices()
    bone_list,  \* bones: the list the function is called with
    worlds,     \* worlds: one 4x4 matrix per bone
    wI,         \* number of loop iterations done
    wPc,        \* "call" | "loop" | "done" | "raised"
    \* _is_effect_mesh()
    effMesh,    \* mesh: verts, tris and tex_path (a sequence of characters)
    effResult,  \* the returned boolean, in a one-element sequence
    effPc,      \* "call" | "returned"
    \* _filter_mesh_components()
    filtMesh,   \* mesh: verts, tris and tex_path
    filtOut,    \* the returned mesh, in a one-element sequence
    filtPc,     \* "call" | "returned"
    \* process_item() / render_bmd()
    rbCaller,   \* "process_item" | "direct": who calls render_bmd
    rbMeshes,   \* meshes (posed in place by _apply_bone_transforms)
    rbBones,    \* bones
    rbEntry,    \* trs_entry: << >> for None, else <<entry>>
    rbOpts,     \* size, standardize, supersample
    use_bones,  \* << >> until computed, then <<boolean>>
    rbBody,     \* body_meshes
    rbView,     \* R
    rbImg,      \* img: << >> or <<[w, h, opaque, via]>>
    rbItem,     \* what process_item returned: << >> or <<[ok, err]>>
    rbPc,       \* "item" | "pose" | "view" | "stack" | "raster" | "downsample" | "clusters"
    \* _remove_small_clusters()
    clImg,      \* img: h, w and px, the RGBA cell of each pixel <<y, x>>
    clOut,      \* the returned image, in a one-element sequence
    clPc,       \* "call" | "returned"
    \* _load_texture() in the mesh loop of render_bmd
    txFiles,    \* the texture files on disk: path -> header length and image
    txMeshes,   \* the tex_path of each body mesh, in order
    tex_cache,  \* _tex_cache: tex_name -> texture, << >> for None
    txI,        \* the mesh the loop is at
    txOut,      \* per mesh done: tex, default_color, and whether a file was opened
    txPc,       \* "loop" | "done" | "raised"
    \* _trs_view_matrix()
    camEntry,   \* trs_entry
    camView,    \* the returned matrix, in a one-element sequence
    camPc,      \* "call" | "returned"
    \* _resolve_texture() and _build_texture_index()
    ixFiles,    \* the texture files on disk
    tex_index,  \* _tex_index: stem -> path
    ixScans,    \* how many times the directories were scanned
    ixCalls,    \* how many calls of _resolve_texture have returned
    ixPath,     \* what the last call returned: <<path>>, << >> for None
    ixPc,       \* "run"
    \* _standardize_item_image(), from the rotated image on
    rotated,    \* the image after img.rotate(pil_angle): h, w and px, its opaque pixels <<y, x>>
    force_flip, \* the per-item flip flag
    need_flip,  \* the decision, in a one-element sequence once it is taken
    stOut,      \* rotated after the decision and its crop box, in a one-element sequence
    stPc        \* "orient" | "oriented" | "returned_img"

batchVars == <<tasks, fates, mainI, mainPc, success, failed, errors, results>>

trsVars == <<trsTable, customDoc, itemList, trs, trsPc, taskEntry, view>>

rasterVars == <<body_meshes, rMesh, rTri, rPc, color_buf, z_buf>>

xorVars == <<xPlain, xData, xOut, xI, xKey, xPc>>

leaVars == <<leaKey, leaPlain, leaData, leaRK, leaOut, leaOff, leaPc>>

parseVars == <<fullFile, raw, data, off, leaBlocksDone, counts, cur_mesh, meshes, actions_keys, bones, pPc>>

bonesVars == <<bone_list, worlds, wI, wPc>>

effectVars == <<effMesh, effResult, effPc>>

filterVars == <<filtMesh, filtOut, filtPc>>

renderVars == <<rbCaller, rbMeshes, rbBones, rbEntry, rbOpts, use_bones, rbBody, rbView, rbImg, rbItem, rbPc>>

clusterVars == <<clImg, clOut, clPc>>

textureVars == <<txFiles, txMeshes, tex_cache, txI, txOut, txPc>>

cameraVars == <<camEntry, camView, camPc>>

indexVars == <<ixFiles, tex_index, ixScans, ixCalls, ixPath, ixPc>>

standardizeVars == <<rotated, force_flip, need_flip, stOut, stPc>>

vars == <<batchVars, trsVars, rasterVars, xorVars, leaVars, parseVars, bonesVars, effectVars, filterVars, renderVars, clusterVars, textureVars, cameraVars, indexVars, standardizeVars>>

(***************************************************************************)
(* Idle values of each part, and the frame of a step of one part           *)
(***************************************************************************)
BatchIdle ==
    /\ tasks = << >> /\ fates = << >> /\ mainI = 0 /\ mainPc = "idle"
    /\ success = 0 /\ failed = 0 /\ errors = << >> /\ results = << >>

TrsIdle ==
    /\ trsTable = << >> /\ customDoc = << >> /\ itemList = {} /\ trs = << >>
    /\ trsPc = "idle" /\ taskEntry = << >> /\ view = << >>

RasterIdle ==
    /\ body_meshes = << >> /\ rMesh = 0 /\ rTri = 0 /\ rPc = "idle"
    /\ color_buf = << >> /\ z_buf = << >>

XorIdle ==
    /\ xPlain = << >> /\ xData = << >> /\ xOut = << >> /\ xI = 0 /\ xKey = 0
    /\ xPc = "idle"

LeaIdle ==
    /\ leaKey = << >> /\ leaPlain = << >> /\ leaData = << >> /\ leaRK = << >>
    /\ leaOut = << >> /\ leaOff = 0 /\ leaPc = "idle"

ParseIdle ==
    /\ fullFile = << >> /\ raw = << >> /\ data = << >> /\ off = 0 /\ leaBlocksDone = 0
    /\ counts = << >> /\ cur_mesh = << >> /\ meshes = << >> /\ actions_keys = << >>
    /\ bones = << >> /\ pPc = "idle"

BonesIdle ==
    /\ bone_list = << >> /\ worlds = << >> /\ wI = 0 /\ wPc = "idle"

EffectIdle ==
    /\ effMesh = << >> /\ effResult = << >> /\ effPc = "idle"

FilterIdle ==
    /\ filtMesh = << >> /\ filtOut = << >> /\ filtPc = "idle"

RenderIdle ==
    /\ rbCaller = "none" /\ rbMeshes = << >> /\ rbBones = << >> /\ rbEntry = << >>
    /\ rbOpts = << >> /\ use_bones = << >> /\ rbBody = << >> /\ rbView = << >>
    /\ rbImg = << >> /\ rbItem = << >> /\ rbPc = "idle"

ClusterIdle ==
    /\ clImg = << >> /\ clOut = << >> /\ clPc = "idle"

TextureIdle ==
    /\ txFiles = << >> /\ txMeshes = << >> /\ tex_cache = << >> /\ txI = 0 /\ txOut = << >>
    /\ txPc = "idle"

CameraIdle ==
    /\ camEntry = << >> /\ camView = << >> /\ camPc = "idle"

IndexIdle ==
    /\ ixFiles = << >> /\ tex_index = << >> /\ ixScans = 0 /\ ixCalls = 0 /\ ixPath = << >>
    /\ ixPc = "idle"

StandardizeIdle ==
    /\ rotated = << >> /\ force_flip = FALSE /\ need_flip = << >> /\ stOut = << >>
    /\ stPc = "idle"

BatchOnly == UNCHANGED <<trsVars, rasterVars, xorVars, leaVars, parseVars, bonesVars, effectVars, filterVars, renderVars, clusterVars, textureVars, cameraVars, indexVars, standardizeVars>>

TrsOnly == UNCHANGED <<batchVars, rasterVars, xorVars, leaVars, parseVars, bonesVars, effectVars, filterVars, renderVars, clusterVars, textureVars, cameraVars, indexVars, standardizeVars>>

RasterOnly == UNCHANGED <<batchVars, trsVars, xorVars, leaVars, parseVars, bonesVars, effectVars, filterVars, renderVars, clusterVars, textureVars, cameraVars, indexVars, standardizeVars>>

XorOnly == UNCHANGED <<batchVars, trsVars, rasterVars, leaVars, parseVars, bonesVars, effectVars, filterVars, renderVars, clusterVars, textureVars, cameraVars, indexVars, standardizeVars>>

LeaOnly == UNCHANGED <<batchVars, trsVars, rasterVars, xorVars, parseVars, bonesVars, effectVars, filterVars, renderVars, clusterVars, textureVars, cameraVars, indexVars, standardizeVars>>

ParseOnly == UNCHANGED <<batchVars, trsVars, rasterVars, xorVars, leaVars, bonesVars, effectVars, filterVars, renderVars, clusterVars, textureVars, cameraVars, indexVars, standardizeVars>>

BonesOnly == UNCHANGED <<batchVars, trsVars, rasterVars, xorVars, leaVars, parseVars, effectVars, filterVars, renderVars, clusterVars, textureVars, cameraVars, indexVars, standardizeVars>>

EffectOnly == UNCHANGED <<batchVars, trsVars, rasterVars, xorVars, leaVars, parseVars, bonesVars, filterVars, renderVars, clusterVars, textureVars, cameraVars, indexVars, standardizeVars>>

FilterOnly == UNCHANGED <<batchVars, trsVars, rasterVars, xorVars, leaVars, parseVars, bonesVars, effectVars, renderVars, clusterVars, textureVars, cameraVars, indexVars, standardizeVars>>

RenderOnly == UNCHANGED <<batchVars, trsVars, rasterVars, xorVars, leaVars, parseVars, bonesVars, effectVars, filterVars, clusterVars, textureVars, cameraVars, indexVars, standardizeVars>>

ClusterOnly == UNCHANGED <<batchVars, trsVars, rasterVars, xorVars, leaVars, parseVars, bonesVars, effectVars, filterVars, renderVars, textureVars, cameraVars, indexVars, standardizeVars>>

TextureOnly == UNCHANGED <<batchVars, trsVars, rasterVars, xorVars, leaVars, parseVars, bonesVars, effectVars, filterVars, renderVars, clusterVars, cameraVars, indexVars, standardizeVars>>

CameraOnly == UNCHANGED <<batchVars, trsVars, rasterVars, xorVars, leaVars, parseVars, bonesVars, effectVars, filterVars, renderVars, clusterVars, textureVars, indexVars, standardizeVars>>

IndexOnly == UNCHANGED <<batchVars, trsVars, rasterVars, xorVars, leaVars, parseVars, bonesVars, effectVars, filterVars, renderVars, clusterVars, textureVars, cameraVars, standardizeVars>>

StandardizeOnly == UNCHANGED <<batchVars, trsVars, rasterVars, xorVars, leaVars, parseVars, bonesVars, effectVars, filterVars, renderVars, clusterVars, textureVars, cameraVars, indexVars>>

(***************************************************************************)
(* Generic helpers                                                         *)
(***************************************************************************)
Range(s) == {s[k] : k \in DOMAIN s}

SeqsUpTo(S, n) == UNION {[1..k -> S] : k \in 0..n}

(***************************************************************************)
(* Batch processing: process_item and the loop of main                     *)
(***************************************************************************)
MaxTasks == 3

TaskNames == {"Sword", "Shield"}

\* What can happen to one item, decided by the disk and the file contents.
Fates == {"missing", "bad_magic", "truncated", "no_meshes",
          "render_raises", "save_raises", "ok"}

\* The exception a stage raises for a fate, or "none".
\* parse_bmd raises ValueError (bad magic, bad mesh count) or struct.error /
\* IndexError (reads past the end of the buffer).
ParseException(fate) ==
    CASE fate = "bad_magic" -> [type |-> "ValueError", msg |-> "Invalid BMD header"]
      [] fate = "truncated" -> [type |-> "struct.error", msg |-> "unpack_from requires a buffer"]
      [] OTHER -> [type |-> "none", msg |-> ""]

RenderException(fate) ==
    IF fate = "render_raises"
    THEN [type |-> "ValueError", msg |-> "need at least one array to concatenate"]
    ELSE [type |-> "none", msg |-> ""]

SaveException(fate) ==
    IF fate = "save_raises"
    THEN [type |-> "OSError", msg |-> "cannot write file"]
    ELSE [type |-> "none", msg |-> ""]

Return(name, ok, err) == [raised |-> FALSE, name |-> name, ok |-> ok, err |-> err]

Raise(exc) == [raised |-> TRUE, name |-> "", ok |-> FALSE, err |-> exc.msg, type |-> exc.type]

\* The body of the try block of process_item: either a return value or a raise.
TryBody(task, fate) ==
    LET pe == ParseException(fate)
        re == RenderException(fate)
        se == SaveException(fate)
    IN  IF pe.type # "none" THEN Raise(pe)
        ELSE IF fate = "no_meshes" THEN Return(task.name, FALSE, "No meshes in BMD")
        ELSE IF re.type # "none" THEN Raise(re)
        ELSE IF se.type # "none" THEN Raise(se)
        ELSE Return(task.name, TRUE, "")

\* A handler that catches only ValueError lets struct.error and OSError out.
ProcessItemNarrowCatch(task, fate) ==
    IF fate = "missing"
    THEN Return(task.name, FALSE, "BMD not found")
    ELSE LET b == TryBody(task, fate)
         IN  IF b.raised /\ b.type = "ValueError"
             THEN Return(task.name, FALSE, b.err)
             ELSE b

\* process_item: the existence test, then try ... except Exception.
ProcessItem(task, fate) ==
    IF fate = "missing"
    THEN Return(task.name, FALSE, "BMD not found")
    ELSE LET b == TryBody(task, fate)
         IN  IF b.raised
             THEN Return(task.name, FALSE, b.err)
             ELSE b

BatchStart ==
    /\ \E n \in 0..MaxTasks :
          /\ tasks \in [1..n -> [name : TaskNames]]
          /\ fates \in [1..n -> Fates]
    /\ mainI = 0
    /\ mainPc = "loop"
    /\ success = 0
    /\ failed = 0
    /\ errors = << >>
    /\ results = << >>

\* One iteration of "for i, args in enumerate(tasks, 1)".
MainLoopStep ==
    /\ mainPc = "loop"
    /\ mainI < Len(tasks)
    /\ LET r == ProcessItem(tasks[mainI + 1], fates[mainI + 1])
       IN  IF r.raised
           THEN /\ mainPc' = "crashed"
                /\ UNCHANGED <<mainI, success, failed, errors, results>>
           ELSE /\ mainI' = mainI + 1
                /\ results' = Append(results, <<r.name, r.ok, r.err>>)
                /\ success' = IF r.ok THEN success + 1 ELSE success
                /\ failed' = IF r.ok THEN failed ELSE failed + 1
                /\ errors' = IF r.ok THEN errors ELSE Append(errors, <<r.name, r.err>>)
                /\ mainPc' = "loop"
    /\ UNCHANGED <<tasks, fates>>
    /\ BatchOnly

\* The loop is exhausted; main goes on to print the summary.
MainLoopExit ==
    /\ mainPc = "loop"
    /\ mainI = Len(tasks)
    /\ mainPc' = "done"
    /\ UNCHANGED <<tasks, fates, mainI, success, failed, errors, results>>
    /\ BatchOnly

BatchInit ==
    BatchStart /\ TrsIdle /\ RasterIdle /\ XorIdle /\ LeaIdle /\ ParseIdle /\ BonesIdle /\ EffectIdle /\ FilterIdle /\ RenderIdle /\ ClusterIdle /\ TextureIdle /\ CameraIdle /\ IndexIdle /\ StandardizeIdle

BatchNext == MainLoopStep \/ MainLoopExit

SpecBatch == BatchInit /\ [][BatchNext]_vars

\* The failures among the first k tasks, as main records them.
RECURSIVE ExpectedErrors(_)
ExpectedErrors(k) ==
    IF k = 0 THEN << >>
    ELSE IF fates[k] = "ok" THEN ExpectedErrors(k - 1)
         ELSE Append(ExpectedErrors(k - 1), <<tasks[k].name, results[k][3]>>)

\* C1: no failure of one item escapes it: the loop never crashes, the k-th
\* result belongs to the k-th task, every task yields one outcome (success
\* exactly when nothing went wrong), success + failed counts the tasks
\* processed, every failure is in the error list with its name and message,
\* and when the loop is done all tasks have been processed.
C1_BatchIsolation ==
    /\ mainPc # "crashed"
    /\ Len(results) = mainI
    /\ mainI <= Len(tasks)
    /\ success + failed = mainI
    /\ \A k \in 1..mainI :
          /\ results[k][1] = tasks[k].name
          /\ results[k][2] = (fates[k] = "ok")
          /\ ~results[k][2] => results[k][3] # ""
    /\ errors = ExpectedErrors(mainI)
    /\ Len(errors) = failed
    /\ mainPc = "done" => mainI = Len(tasks)

C1_Witness ==
    /\ mainPc = "done"
    /\ Len(tasks) = 3
    /\ fates[1] = "truncated"
    /\ fates[2] = "ok"
    /\ fates[3] = "save_raises"
    /\ success = 1
    /\ failed = 2

(***************************************************************************)
(* View matrices.  A matrix is kept as the product of the factors the code *)
(* multiplies (a mirror of X, rotations about one axis by whole degrees),  *)
(* with adjacent rotations about the same axis merged and zero rotations   *)
(* dropped, so that two equal products denote the same matrix.             *)
(***************************************************************************)
Last(s) == s[Len(s)]

Front(s) == SubSeq(s, 1, Len(s) - 1)

PushFactor(stack, f) ==
    IF f.axis # "mirror" /\ f.deg % 360 = 0 THEN stack
    ELSE IF stack # << >> /\ Last(stack).axis = f.axis
         THEN IF f.axis = "mirror" THEN Front(stack)
              ELSE LET d == (Last(stack).deg + f.deg) % 360
                   IN  IF d = 0 THEN Front(stack)
                       ELSE Append(Front(stack), [axis |-> f.axis, deg |-> d])
         ELSE Append(stack, [axis |-> f.axis, deg |-> f.deg % 360])

RECURSIVE MatMulFrom(_, _, _)
MatMulFrom(acc, B, k) ==
    IF k > Len(B) THEN acc ELSE MatMulFrom(PushFactor(acc, B[k]), B, k + 1)

\* A @ B
MatMul(A, B) == MatMulFrom(A, B, 1)

\* np.linalg.inv of a product of rotations and mirrors
MatInv(A) == MatMulFrom(<< >>, [k \in 1..Len(A) |->
                 [axis |-> A[Len(A) + 1 - k].axis,
                  deg |-> (0 - A[Len(A) + 1 - k].deg) % 360]], 1)

Rx(a) == PushFactor(<< >>, [axis |-> "x", deg |-> a])

Ry(a) == PushFactor(<< >>, [axis |-> "y", deg |-> a])

Rz(a) == PushFactor(<< >>, [axis |-> "z", deg |-> a])

MODEL_FLIP == Rx(-90)

MIRROR_X == <<[axis |-> "mirror", deg |-> 0]>>

VIEW_FALLBACK == MatMul(MatMul(MatMul(MIRROR_X, Rx(-15)), Ry(12)), MODEL_FLIP)

TRS_DEFAULT == MatMul(MatMul(Rz(15), Ry(270)), Rx(180))

TRS_CORRECTION == MatMul(VIEW_FALLBACK, MatInv(TRS_DEFAULT))

NOFLIP_CAM == MatMul(MIRROR_X, Rx(-15))

(***************************************************************************)
(* Orientation data: load_trs_data, _merge_custom_trs, the lookup of main  *)
(* and the view matrix chosen for an item                                  *)
(***************************************************************************)
TrsSections == {0, 1}

TrsIndexes == {0, 1}

\* item_id = section * 512 + index in itemtrsdata.bmd
SectionStride == 512

\* obj.get(k, d) of a JSON object or dict
Get(obj, k, d) == IF k \in DOMAIN obj THEN obj[k] ELSE d

\* The records the binary table may hold (positions and scale are informational).
TableRecord ==
    [posX |-> 1, posY |-> 2, posZ |-> 3, rotX |-> 180, rotY |-> 270, rotZ |-> 15, scale |-> 4]

TableIds == {0, 1, SectionStride}

\* The dictionary the binary pass of load_trs_data builds.
BinaryTrs(table) ==
    [k \in {<<id \div SectionStride, id % SectionStride>> : id \in DOMAIN table} |->
        LET r == table[k[1] * SectionStride + k[2]]
        IN  [posX |-> r.posX, posY |-> r.posY, posZ |-> r.posZ,
             rotX |-> r.rotX, rotY |-> r.rotY, rotZ |-> r.rotZ,
             scale |-> r.scale, source |-> "binary"]]

OptionalKeys == {"bones", "display_angle", "flip", "fill_ratio", "camera", "perspective", "fov"}

\* _make_trs_entry
MakeTrsEntry(obj) ==
    [posX |-> Get(obj, "posX", 0), posY |-> Get(obj, "posY", 0), posZ |-> Get(obj, "posZ", 0),
     rotX |-> Get(obj, "rotX", 0), rotY |-> Get(obj, "rotY", 0), rotZ |-> Get(obj, "rotZ", 0),
     scale |-> Get(obj, "scale", 0), source |-> "custom"]
    @@ [k \in OptionalKeys \cap DOMAIN obj |-> obj[k]]

\* int() of a string of decimal digits, the string kept as its characters
DigitVal(c) ==
    CASE c = "0" -> 0 [] c = "1" -> 1 [] c = "2" -> 2 [] c = "3" -> 3 [] c = "4" -> 4
      [] c = "5" -> 5 [] c = "6" -> 6 [] c = "7" -> 7 [] c = "8" -> 8 [] c = "9" -> 9

RECURSIVE IntOf(_)
IntOf(str) ==
    IF Len(str) = 1 THEN DigitVal(str[1])
    ELSE 10 * IntOf(Front(str)) + DigitVal(Last(str))

\* key_str.split("_", 1)
SplitFirst(str) ==
    LET at == {i \in 1..Len(str) : str[i] = "_"}
    IN  IF at = {} THEN <<str>>
        ELSE LET i == CHOOSE x \in at : \A y \in at : x <= y
             IN  <<SubSeq(str, 1, i - 1), SubSeq(str, i + 1, Len(str))>>

\* The loop body of the section pass: every item ItemList.xml lists for the
\* section gets a copy of the entry if the section overrides or the key is new.
ApplySectionAlways(t, sec, val, listed) ==
    LET entry == MakeTrsEntry(val)
        hit == {k \in listed : k[1] = sec}
    IN  [k \in DOMAIN t \cup hit |-> IF k \in hit THEN entry ELSE t[k]]

ApplySection(t, sec, val, listed) ==
    LET entry == MakeTrsEntry(val)
        override == Get(val, "override", FALSE)
        hit == {k \in listed : k[1] = sec /\ (override \/ k \notin DOMAIN t)}
    IN  [k \in DOMAIN t \cup hit |-> IF k \in hit THEN entry ELSE t[k]]

\* for sec_str, val in data.get("sections", {}).items()
RECURSIVE MergeSections(_, _, _, _)
MergeSections(t, todo, sections, listed) ==
    IF todo = {} THEN t
    ELSE LET s == CHOOSE x \in todo : TRUE
         IN  MergeSections(ApplySection(t, IntOf(s), sections[s], listed),
                           todo \ {s}, sections, listed)

\* The loop body of the per-item pass.
ApplyItem(t, keyStr, val) ==
    LET parts == SplitFirst(keyStr)
    IN  IF Len(parts) = 2
        THEN LET k == <<IntOf(parts[1]), IntOf(parts[2])>>
             IN  [x \in DOMAIN t \cup {k} |-> IF x = k THEN MakeTrsEntry(val) ELSE t[x]]
        ELSE t

\* for key_str, val in data.get("items", {}).items()
RECURSIVE MergeItems(_, _, _)
MergeItems(t, todo, items) ==
    IF todo = {} THEN t
    ELSE LET s == CHOOSE x \in todo : TRUE
         IN  MergeItems(ApplyItem(t, s, items[s]), todo \ {s}, items)

\* data.get(name, {}) of the parsed document, a sequence of <<name, value>> members
DocGet(doc, name) ==
    IF \E m \in 1..Len(doc) : doc[m][1] = name
    THEN doc[CHOOSE m \in 1..Len(doc) : doc[m][1] = name][2]
    ELSE << >>

\* A merge that applies the members in the order the document gives them.
RECURSIVE MergeMembersInOrder(_, _, _, _)
MergeMembersInOrder(t, doc, m, listed) ==
    IF m > Len(doc) THEN t
    ELSE MergeMembersInOrder(
             IF doc[m][1] = "sections"
             THEN MergeSections(t, DOMAIN doc[m][2], doc[m][2], listed)
             ELSE MergeItems(t, DOMAIN doc[m][2], doc[m][2]),
             doc, m + 1, listed)

MergeCustomTrsDocOrder(t, docFile, listed) ==
    IF docFile = << >> THEN t
    ELSE MergeMembersInOrder(t, docFile[1], 1, listed)

\* _merge_custom_trs: the sections first, the items last
MergeCustomTrs(t, docFile, listed) ==
    IF docFile = << >> THEN t
    ELSE LET sections == DocGet(docFile[1], "sections")
             items == DocGet(docFile[1], "items")
         IN  MergeItems(MergeSections(t, DOMAIN sections, sections, listed),
                        DOMAIN items, items)

\* A distance that does not wrap around
AngleDistNoWrap(a, b) == IF a >= b THEN a - b ELSE b - a

\* _angle_dist
AngleDist(a, b) ==
    LET d == (a - b) % 360
    IN  IF d <= 180 THEN d ELSE 360 - d

\* _trs_view_matrix
TrsViewMatrix(entry) ==
    LET trs_rot == MatMul(MatMul(Rz(entry.rotZ), Ry(entry.rotY)), Rx(entry.rotX))
        cam == Get(entry, "camera", "none")
    IN  IF cam = "noflip" THEN MatMul(NOFLIP_CAM, trs_rot)
        ELSE IF cam = "correction" THEN MatMul(TRS_CORRECTION, trs_rot)
        ELSE IF AngleDist(entry.rotY, 270) <= 45 \/ AngleDist(entry.rotY, 90) <= 45
             THEN MatMul(TRS_CORRECTION, trs_rot)
             ELSE MatMul(NOFLIP_CAM, trs_rot)

\* The matrix _compute_view_matrix returns for trs_entry (<< >> is None).
ComputeViewMatrix(entryOpt) ==
    IF entryOpt # << >> THEN TrsViewMatrix(entryOpt[1]) ELSE VIEW_FALLBACK

\* The inputs: the override objects of custom_trs.json
SectionObjs ==
    {[rotY |-> 90, scale |-> 2],
     [rotY |-> 90, scale |-> 2, override |-> TRUE],
     [rotX |-> 30, override |-> FALSE]}

ItemObjs == {[rotX |-> 90, rotY |-> 0, rotZ |-> 45, scale |-> 1], [rotY |-> 270, camera |-> "noflip"]}

SectionKeyStrs == {<<"0">>, <<"1">>}

ItemKeyStrs == {<<"0", "_", "0">>, <<"1", "_", "0">>, <<"1", "0">>}

\* A partial function from D to R, as a dict
Dicts(D, R) == UNION {[d -> R] : d \in SUBSET D}

\* custom_trs.json: absent, or its two members in either order
CustomDocs ==
    LET secs == Dicts(SectionKeyStrs, SectionObjs)
        its == Dicts(ItemKeyStrs, ItemObjs)
    IN  {<< >>}
        \cup {<< << <<"sections", sm>>, <<"items", im>> >> >> : sm \in secs, im \in its}
        \cup {<< << <<"items", im>>, <<"sections", sm>> >> >> : sm \in secs, im \in its}

ItemLists == {TrsSections \X TrsIndexes, {<<0, 1>>, <<1, 0>>}, {<<0, 0>>}}

TrsStart ==
    /\ trsTable \in Dicts(TableIds, {TableRecord})
    /\ customDoc \in CustomDocs
    /\ itemList \in ItemLists
    /\ trs = << >>
    /\ trsPc = "load"
    /\ taskEntry = << >>
    /\ view = << >>

\* trs_data = load_trs_data()
LoadTrsData ==
    /\ trsPc = "load"
    /\ trs' = MergeCustomTrs(BinaryTrs(trsTable), customDoc, itemList)
    /\ trsPc' = "tasks"
    /\ UNCHANGED <<trsTable, customDoc, itemList, taskEntry, view>>
    /\ TrsOnly

\* The task list of main: trs_entry = trs_data.get((section, index))
MainBuildTasks ==
    /\ trsPc = "tasks"
    /\ taskEntry' = [k \in itemList |-> IF k \in DOMAIN trs THEN <<trs[k]>> ELSE << >>]
    /\ trsPc' = "render"
    /\ UNCHANGED <<trsTable, customDoc, itemList, trs, view>>
    /\ TrsOnly

\* The next task in list order (sections, then indexes, ascending)
NextItem ==
    CHOOSE k \in itemList \ DOMAIN view :
        \A o \in itemList \ DOMAIN view :
            k[1] * SectionStride + k[2] <= o[1] * SectionStride + o[2]

\* render_bmd of the next task: the view matrix _compute_view_matrix returns
RenderView ==
    /\ trsPc = "render"
    /\ itemList \ DOMAIN view # {}
    /\ view' = [k \in DOMAIN view \cup {NextItem} |->
                   IF k = NextItem THEN ComputeViewMatrix(taskEntry[k]) ELSE view[k]]
    /\ UNCHANGED <<trsTable, customDoc, itemList, trs, trsPc, taskEntry>>
    /\ TrsOnly

TrsFinish ==
    /\ trsPc = "render"
    /\ itemList \ DOMAIN view = {}
    /\ trsPc' = "done"
    /\ UNCHANGED <<trsTable, customDoc, itemList, trs, taskEntry, view>>
    /\ TrsOnly

TrsInit ==
    TrsStart /\ BatchIdle /\ RasterIdle /\ XorIdle /\ LeaIdle /\ ParseIdle /\ BonesIdle /\ EffectIdle /\ FilterIdle /\ RenderIdle /\ ClusterIdle /\ TextureIdle /\ CameraIdle /\ IndexIdle /\ StandardizeIdle

TrsNext == LoadTrsData \/ MainBuildTasks \/ RenderView \/ TrsFinish

SpecTrs == TrsInit /\ [][TrsNext]_vars

\* The (section, index) keys the per-item section of the document names, and
\* the object each one carries.
ItemOverrides ==
    IF customDoc = << >> THEN << >>
    ELSE LET items == DocGet(customDoc[1], "items")
             named == {s \in DOMAIN items : Len(SplitFirst(s)) = 2}
             KeyOfStr(s) == <<IntOf(SplitFirst(s)[1]), IntOf(SplitFirst(s)[2])>>
         IN  [k \in {KeyOfStr(s) : s \in named} |->
                 items[CHOOSE s \in named : KeyOfStr(s) = k]]

\* The section default the document gives for a section, << >> when none.
SectionDefault(sec) ==
    IF customDoc = << >> THEN << >>
    ELSE LET sections == DocGet(customDoc[1], "sections")
             named == {s \in DOMAIN sections : IntOf(s) = sec}
         IN  IF named = {} THEN << >> ELSE <<sections[CHOOSE s \in named : TRUE]>>

\* C2: once the orientation data is loaded, every key the per-item section of
\* the override document names has an entry carrying that override's rotation
\* (absent fields zero) and provenance "custom", whatever the table and the
\* section defaults hold and whichever member comes first in the document.
C2_ItemOverrideWins ==
    trsPc \in {"tasks", "render", "done"} =>
        \A k \in DOMAIN ItemOverrides :
            /\ k \in DOMAIN trs
            /\ trs[k].rotX = Get(ItemOverrides[k], "rotX", 0)
            /\ trs[k].rotY = Get(ItemOverrides[k], "rotY", 0)
            /\ trs[k].rotZ = Get(ItemOverrides[k], "rotZ", 0)
            /\ trs[k].source = "custom"

\* A key with a table entry, an overriding section default and a per-item
\* override, in a document that gives "items" before "sections".
C2_Witness ==
    /\ trsPc = "done"
    /\ customDoc # << >>
    /\ customDoc[1][1][1] = "items"
    /\ <<0, 0>> \in DOMAIN ItemOverrides
    /\ <<0, 0>> \in DOMAIN BinaryTrs(trsTable)
    /\ <<0, 0>> \in itemList
    /\ SectionDefault(0) # << >>
    /\ Get(SectionDefault(0)[1], "override", FALSE)
    /\ trs[<<0, 0>>].rotX = 90
    /\ trs[<<0, 0>>].source = "custom"

\* The precedence chain below the per-item override, for a rendered item k;
\* lastResort is what the chain ends in when nothing supplies the key.
PrecedenceChain(k, lastResort) ==
    LET table == BinaryTrs(trsTable)
        def == SectionDefault(k[1])
        applies == /\ def # << >>
                   /\ (k \notin DOMAIN table \/ Get(def[1], "override", FALSE))
    IN  IF applies
        THEN /\ taskEntry[k] = <<MakeTrsEntry(def[1])>>
             /\ view[k] = TrsViewMatrix(MakeTrsEntry(def[1]))
        ELSE IF k \in DOMAIN table
        THEN /\ taskEntry[k] = <<table[k]>>
             /\ view[k] = TrsViewMatrix(table[k])
        ELSE lastResort

\* C3 as amended: for a rendered item without a per-item override, a section
\* default applies only if the table has no entry or the section overrides;
\* otherwise the table entry is used; with neither, the task carries no entry
\* and the item is rendered with the fixed fallback view.
C3_PrecedenceChain ==
    \A k \in DOMAIN view :
        k \notin DOMAIN ItemOverrides =>
            PrecedenceChain(k, taskEntry[k] = << >> /\ view[k] = VIEW_FALLBACK)

C3_Witness ==
    /\ trsPc = "done"
    /\ itemList = TrsSections \X TrsIndexes
    /\ DOMAIN ItemOverrides = {}
    /\ SectionDefault(0) # << >>
    /\ ~Get(SectionDefault(0)[1], "override", FALSE)
    /\ SectionDefault(1) = << >>
    /\ taskEntry[<<0, 0>>][1].source = "binary"
    /\ taskEntry[<<0, 1>>][1].source = "custom"
    /\ taskEntry[<<1, 1>>] = << >>
    /\ view[<<1, 1>>] = VIEW_FALLBACK

\* C3 as stated: ... with neither a table entry nor an applicable section
\* default, the item is rendered with zero rotation and zero scale.
C3_AsStated ==
    \A k \in DOMAIN view :
        k \notin DOMAIN ItemOverrides =>
            PrecedenceChain(k, view[k] = TrsViewMatrix(MakeTrsEntry(<< >>)))

(***************************************************************************)
(* Rasterizer: the mesh loop of render_bmd and _rasterize_triangle.        *)
(* Projected vertices have whole coordinates, so barycentric weights and   *)
(* depths are exact fractions; a texture is a single texel, for which the  *)
(* four taps of _sample_texture coincide and the sample is that texel.     *)
(***************************************************************************)
RasterSize == 3

MaxMeshes == 2

Abs(x) == IF x < 0 THEN 0 - x ELSE x

Min3(a, b, c) == IF a <= b /\ a <= c THEN a ELSE IF b <= c THEN b ELSE c

Max3(a, b, c) == IF a >= b /\ a >= c THEN a ELSE IF b >= c THEN b ELSE c

Max2(a, b) == IF a >= b THEN a ELSE b

Min2(a, b) == IF a <= b THEN a ELSE b

RECURSIVE Gcd(_, _)
Gcd(a, b) == IF b = 0 THEN a ELSE Gcd(b, a % b)

\* -np.inf
NegInf == <<0, 0>>

\* The fraction n / d (d # 0) in lowest terms with a positive denominator
Frac(n, d) ==
    LET g == Gcd(Abs(n), Abs(d))
        sg == IF d < 0 THEN -1 ELSE 1
    IN  <<(sg * n) \div g, (sg * d) \div g>>

\* a > b on depths
ZGt(a, b) ==
    IF a = NegInf THEN FALSE
    ELSE IF b = NegInf THEN TRUE
    ELSE a[1] * b[2] > b[1] * a[2]

Pixels == (0..(RasterSize - 1)) \X (0..(RasterSize - 1))

\* arr[i] of Python: a negative index counts from the end
PyIndexOk(arr, i) == 0 - Len(arr) <= i /\ i < Len(arr)

At(arr, i) == IF i < 0 THEN arr[Len(arr) + i + 1] ELSE arr[i + 1]

\* A vertex-index test that forgets the negative side
VertexIndicesInRangeUpperOnly(idx, nv) == \A k \in 1..3 : idx[k] < nv

\* if any(i < 0 or i >= nv for i in idx): return
VertexIndicesInRange(idx, nv) == \A k \in 1..3 : ~(idx[k] < 0 \/ idx[k] >= nv)

\* has_uv = tex is not None and all(0 <= i < nuv for i in uv_idx)
HasUv(tex, uv_idx, nuv) == tex # << >> /\ \A k \in 1..3 : 0 <= uv_idx[k] /\ uv_idx[k] < nuv

\* _sample_texture on a 1 x 1 texture
SampleTexture(tex) == tex[1]

RECURSIVE ChannelSum(_, _)
ChannelSum(tex, c) == IF tex = << >> THEN 0 ELSE Head(tex)[c] + ChannelSum(Tail(tex), c)

\* int(tex[:, :, c].mean()) over the texels of tex
ChannelMean(tex, c) == ChannelSum(tex, c) \div Len(tex)

\* default_color of render_bmd: the average texel, or gray without a texture
DefaultColor(tex) ==
    IF tex # << >>
    THEN <<ChannelMean(tex, 1), ChannelMean(tex, 2), ChannelMean(tex, 3), 255>>
    ELSE <<160, 160, 170, 255>>

Cross(e, f) ==
    <<e[2] * f[3] - e[3] * f[2], e[3] * f[1] - e[1] * f[3], e[1] * f[2] - e[2] * f[1]>>

\* normal / nl, kept as the shortest whole vector of that direction
UnitNormal(n) ==
    LET g == Gcd(Gcd(Abs(n[1]), Abs(n[2])), Abs(n[3]))
    IN  <<n[1] \div g, n[2] \div g, n[3] \div g>>

\* The colour cell written for texel rgba under the flat shade of a normal:
\* gamma decode, shade, exposure, ACES curve and gamma encode are a fixed
\* function of the texel's rgb and the shade, kept here by its arguments.
Shaded(rgba, normal) == [rgb |-> <<rgba[1], rgba[2], rgba[3]>>, shade |-> normal, a |-> rgba[4]]

EmptyCell == [rgb |-> <<0, 0, 0>>, shade |-> <<0, 0, 0>>, a |-> 0]

\* The set-up of _rasterize_triangle up to the pixel loop, from the corner
\* coordinates x, y, z: the normal, the bounding box and the determinant, and
\* whether the function gets as far as the loop.
TriBox(x, y, z, normal, det) ==
    [x |-> x, y |-> y, z |-> z, normal |-> normal, det |-> det,
     min_x |-> Max2(0, Min3(x[1], x[2], x[3])),
     max_x |-> Min2(RasterSize - 1, Max3(x[1], x[2], x[3]) + 1),
     min_y |-> Max2(0, Min3(y[1], y[2], y[3])),
     max_y |-> Min2(RasterSize - 1, Max3(y[1], y[2], y[3]) + 1)]

TriCorners(x, y, z) ==
    TriBox(x, y, z,
           Cross(<<x[2] - x[1], y[2] - y[1], z[2] - z[1]>>,
                 <<x[3] - x[1], y[3] - y[1], z[3] - z[1]>>),
           (y[2] - y[3]) * (x[1] - x[3]) + (x[3] - x[2]) * (y[1] - y[3]))

TriSetup(mesh, idx) ==
    TriCorners(<<At(mesh.px, idx[1]), At(mesh.px, idx[2]), At(mesh.px, idx[3])>>,
               <<At(mesh.py, idx[1]), At(mesh.py, idx[2]), At(mesh.py, idx[3])>>,
               <<At(mesh.pz, idx[1]), At(mesh.pz, idx[2]), At(mesh.pz, idx[3])>>)

TriDraws(t) ==
    /\ t.normal # <<0, 0, 0>>
    /\ ~(t.min_x >= t.max_x \/ t.min_y >= t.max_y)
    /\ t.det # 0

\* w < -0.001 for the weight w = n / det
BelowTolerance(n, det) == 1000 * n * (IF det < 0 THEN -1 ELSE 1) < 0 - Abs(det)

\* One pixel of the loop over the bounding box, from the numerators n0, n1 of
\* its first two barycentric weights: whether the pixel passes the
\* barycentric test, and the depth and texel the triangle gives it.
FragmentOf(t, rgba, sx, sy, n0, n1) ==
    [inside |-> /\ TriDraws(t)
                /\ t.min_x <= sx /\ sx <= t.max_x
                /\ t.min_y <= sy /\ sy <= t.max_y
                /\ ~BelowTolerance(n0, t.det)
                /\ ~BelowTolerance(n1, t.det)
                /\ ~BelowTolerance(t.det - n0 - n1, t.det),
     z |-> IF t.det = 0 THEN NegInf
           ELSE Frac(n0 * t.z[1] + n1 * t.z[2] + (t.det - n0 - n1) * t.z[3], t.det),
     rgba |-> rgba,
     normal |-> IF t.normal = <<0, 0, 0>> THEN t.normal ELSE UnitNormal(t.normal)]

FragmentAt(t, rgba, sx, sy) ==
    FragmentOf(t, rgba, sx, sy,
               (t.y[2] - t.y[3]) * (sx - t.x[3]) + (t.x[3] - t.x[2]) * (sy - t.y[3]),
               (t.y[3] - t.y[1]) * (sx - t.x[3]) + (t.x[1] - t.x[3]) * (sy - t.y[3]))

\* The colour of the triangle before shading: the texture sample when the
\* UV indices are usable, the mesh's default colour otherwise
TriColor(mesh, uv_idx) ==
    IF HasUv(mesh.tex, uv_idx, Len(mesh.uvs)) THEN SampleTexture(mesh.tex)
    ELSE DefaultColor(mesh.tex)

Fragment(mesh, vi, ti, p) ==
    FragmentAt(TriSetup(mesh, <<vi[1], vi[3], vi[2]>>),
               TriColor(mesh, <<ti[1], ti[3], ti[2]>>), p[1], p[2])

\* A depth test that lets an equal depth through
DepthTestPassesOrEqual(z, stored) == ~ZGt(stored, z)

\* if z <= z_buf[sy, sx]: continue
DepthTestPasses(z, stored) == ZGt(z, stored)

\* A pixel step that stores the depth before it looks at the alpha
PixelAfterDepthFirst(f, cell) ==
    IF f.inside /\ DepthTestPasses(f.z, cell.z)
    THEN IF f.rgba[4] < 8 THEN [z |-> f.z, color |-> cell.color]
         ELSE [z |-> f.z, color |-> Shaded(f.rgba, f.normal)]
    ELSE cell

\* The pixel after the fragment f: skipped outside the triangle, behind the
\* stored depth or below the alpha threshold, otherwise depth then colour
PixelAfter(f, cell) ==
    IF f.inside /\ DepthTestPasses(f.z, cell.z) /\ ~(f.rgba[4] < 8)
    THEN [z |-> f.z, color |-> Shaded(f.rgba, f.normal)]
    ELSE cell

PixelLoop(b, mesh, vi, ti) ==
    [raised |-> FALSE,
     cells |-> [p \in Pixels |-> PixelAfter(Fragment(mesh, vi, ti, p), b.cells[p])]]

\* _rasterize_triangle on the buffers b; b.raised where indexing the vertex
\* arrays raises IndexError (an exception ends the calls that follow it)
RasterizeTriangle(b, mesh, vi, ti) ==
    IF b.raised THEN b
    ELSE IF ~VertexIndicesInRange(<<vi[1], vi[3], vi[2]>>, Len(mesh.px)) THEN b
    ELSE IF \E k \in 1..3 : ~PyIndexOk(mesh.px, vi[k]) THEN [b EXCEPT !.raised = TRUE]
    ELSE PixelLoop(b, mesh, vi, ti)

\* The body of "for poly, vi, _ni, ti in tris": one call, and for a 4-gon a
\* second call on the other half.
RasterizePolygon(b, mesh, tri) ==
    IF tri.poly # 4 THEN RasterizeTriangle(b, mesh, tri.vi, tri.ti)
    ELSE RasterizeTriangle(RasterizeTriangle(b, mesh, tri.vi, tri.ti), mesh,
                           <<tri.vi[1], tri.vi[3], tri.vi[4]>>,
                           <<tri.ti[1], tri.ti[3], tri.ti[4]>>)

Cells(color, z) ==
    [raised |-> FALSE, cells |-> [p \in Pixels |-> [z |-> z[p], color |-> color[p]]]]

\* The inputs: projected vertex arrays on the corners of the canvas
CornerX == <<0, RasterSize - 1, 0, RasterSize - 1>>

CornerY == <<0, 0, RasterSize - 1, RasterSize - 1>>

ThreeUvs == <<<<0, 0>>, <<1, 0>>, <<0, 1>>>>

Tri(poly, vi, ni, ti) == [poly |-> poly, vi |-> vi, ni |-> ni, ti |-> ti]

GoodTri == Tri(3, <<0, 1, 2, 0>>, <<0, 1, 2, 0>>, <<0, 1, 2, 0>>)

\* Polygon lists with a vertex or normal index out of range somewhere, 4-gons
\* and a degenerate triangle
OddTris ==
    {<<Tri(3, <<0, 1, 4, 0>>, <<0, 1, 2, 0>>, <<0, 1, 2, 0>>), GoodTri>>,
     <<Tri(3, <<-1, 1, 2, 0>>, <<0, 1, 2, 0>>, <<0, 1, 2, 0>>),
       Tri(4, <<0, 1, 2, 7>>, <<0, 1, 2, 0>>, <<0, 1, 2, 0>>)>>,
     <<Tri(4, <<0, 4, 3, 2>>, <<0, 1, 2, 0>>, <<0, 1, 2, 0>>),
       Tri(3, <<0, 0, 1, 0>>, <<0, 1, 2, 0>>, <<0, 1, 2, 0>>)>>,
     <<Tri(3, <<0, 1, 2, 0>>, <<0, 9, -3, 0>>, <<0, 1, 2, 0>>)>>,
     <<Tri(4, <<0, 1, 3, 2>>, <<0, 1, 2, 0>>, <<0, 1, 2, 0>>)>>}

UvHighTri == Tri(3, <<0, 1, 2, 0>>, <<0, 1, 2, 0>>, <<0, 1, 3, 0>>)

UvNegTri == Tri(3, <<0, 1, 2, 0>>, <<0, 1, 2, 0>>, <<-1, 1, 2, 0>>)

Mesh(pz, tex, tris) ==
    [px |-> CornerX, py |-> CornerY, pz |-> pz, uvs |-> ThreeUvs, nn |-> 3, tex |-> tex,
     tris |-> tris]

NoVertsMesh == [px |-> << >>, py |-> << >>, pz |-> << >>, uvs |-> << >>, nn |-> 0,
                tex |-> << >>, tris |-> <<GoodTri>>]

\* Textures: none, opaque, alpha 8 and alpha 7; depths: two flat, one slanted
MeshMenu ==
    {Mesh(<<1, 1, 1, 1>>, << >>, <<GoodTri>>),
     Mesh(<<2, 2, 2, 2>>, <<<<200, 10, 10, 255>>>>, <<GoodTri>>),
     Mesh(<<0, 1, 2, 3>>, <<<<200, 10, 10, 255>>>>, <<GoodTri>>),
     Mesh(<<1, 1, 1, 1>>, <<<<10, 200, 10, 8>>>>, <<GoodTri>>),
     Mesh(<<2, 2, 2, 2>>, <<<<10, 10, 200, 7>>>>, <<GoodTri>>),
     Mesh(<<2, 2, 2, 2>>, <<<<10, 200, 10, 8>>>>, <<UvHighTri>>),
     Mesh(<<2, 2, 2, 2>>, <<<<10, 200, 10, 8>>>>, <<UvNegTri>>),
     Mesh(<<2, 2, 2, 2>>, << >>, <<UvHighTri>>),
     NoVertsMesh}
    \cup {Mesh(<<2, 2, 2, 2>>, << >>, tris) : tris \in OddTris}

RasterStart ==
    /\ body_meshes \in SeqsUpTo(MeshMenu, MaxMeshes)
    /\ rMesh = 1
    /\ rTri = 0
    /\ rPc = "draw"
    /\ color_buf = [p \in Pixels |-> EmptyCell]
    /\ z_buf = [p \in Pixels |-> NegInf]

\* One iteration of the triangle loop of the current mesh
RasterPolygonTo(b) ==
    /\ color_buf' = [p \in Pixels |-> b.cells[p].color]
    /\ z_buf' = [p \in Pixels |-> b.cells[p].z]
    /\ rPc' = (IF b.raised THEN "crashed" ELSE "draw")

RasterPolygon ==
    /\ rPc = "draw"
    /\ rMesh <= Len(body_meshes)
    /\ Len(body_meshes[rMesh].px) # 0
    /\ rTri < Len(body_meshes[rMesh].tris)
    /\ RasterPolygonTo(RasterizePolygon(Cells(color_buf, z_buf), body_meshes[rMesh],
                                        body_meshes[rMesh].tris[rTri + 1]))
    /\ rTri' = rTri + 1
    /\ UNCHANGED <<body_meshes, rMesh>>
    /\ RasterOnly

\* The mesh has no vertices ("continue") or its triangles are exhausted
RasterNextMesh ==
    /\ rPc = "draw"
    /\ rMesh <= Len(body_meshes)
    /\ \/ Len(body_meshes[rMesh].px) = 0
       \/ rTri = Len(body_meshes[rMesh].tris)
    /\ rMesh' = rMesh + 1
    /\ rTri' = 0
    /\ UNCHANGED <<body_meshes, rPc, color_buf, z_buf>>
    /\ RasterOnly

\* The mesh loop is over: img = Image.fromarray(color_buf)
RasterFinish ==
    /\ rPc = "draw"
    /\ rMesh > Len(body_meshes)
    /\ rPc' = "done"
    /\ UNCHANGED <<body_meshes, rMesh, rTri, color_buf, z_buf>>
    /\ RasterOnly

RasterInit ==
    RasterStart /\ BatchIdle /\ TrsIdle /\ XorIdle /\ LeaIdle /\ ParseIdle /\ BonesIdle /\ EffectIdle /\ FilterIdle /\ RenderIdle /\ ClusterIdle /\ TextureIdle /\ CameraIdle /\ IndexIdle /\ StandardizeIdle

RasterNext == RasterPolygon \/ RasterNextMesh \/ RasterFinish

SpecRaster == RasterInit /\ [][RasterNext]_vars

(***************************************************************************)
(* Claims about the rasterizer                                             *)
(***************************************************************************)
\* The arguments of the call for half h of a polygon
HalfArgs(tri, h) ==
    IF h = 1 THEN [vi |-> tri.vi, ni |-> tri.ni, ti |-> tri.ti]
    ELSE [vi |-> <<tri.vi[1], tri.vi[3], tri.vi[4]>>,
          ni |-> <<tri.ni[1], tri.ni[3], tri.ni[4]>>,
          ti |-> <<tri.ti[1], tri.ti[3], tri.ti[4]>>]

Halves(tri) == IF tri.poly = 4 THEN {1, 2} ELSE {1}

IndicesOk(ix, n) == \A k \in 1..3 : 0 <= ix[k] /\ ix[k] < n

\* The calls <<mesh, polygon, half>> of a render whose vertex indices are valid
RasterCalls ==
    UNION {{c \in {m} \X (1..Len(body_meshes[m].tris)) \X {1, 2} :
               /\ c[3] \in Halves(body_meshes[m].tris[c[2]])
               /\ IndicesOk(HalfArgs(body_meshes[m].tris[c[2]], c[3]).vi, Len(body_meshes[m].px))} :
           m \in 1..Len(body_meshes)}

FragmentOfCall(c, p) ==
    Fragment(body_meshes[c[1]], HalfArgs(body_meshes[c[1]].tris[c[2]], c[3]).vi,
             HalfArgs(body_meshes[c[1]].tris[c[2]], c[3]).ti, p)

\* The calls that give pixel p an opaque fragment
OpaqueCalls(p) ==
    {c \in RasterCalls : FragmentOfCall(c, p).inside /\ FragmentOfCall(c, p).rgba[4] >= 8}

DistinctDepths(C, p) ==
    \A c, d \in C : c # d => FragmentOfCall(c, p).z # FragmentOfCall(d, p).z

\* C4: a pixel of the colour or depth buffer changes only to a depth strictly
\* greater than the stored one, and when the render is over every pixel whose
\* opaque fragments (alpha >= 8) have pairwise distinct depths holds the
\* largest of these depths and the colour of the fragment that has it.
C4_LargestDepthWins ==
    [][/\ \A p \in Pixels :
              (z_buf'[p] # z_buf[p] \/ color_buf'[p] # color_buf[p])
                  => ZGt(z_buf'[p], z_buf[p])
       /\ rPc' = "done" =>
              \A p \in Pixels :
                  (OpaqueCalls(p) # {} /\ DistinctDepths(OpaqueCalls(p), p)) =>
                      \E c \in OpaqueCalls(p) :
                          /\ \A d \in OpaqueCalls(p) :
                                 d = c \/ ZGt(FragmentOfCall(c, p).z, FragmentOfCall(d, p).z)
                          /\ z_buf'[p] = FragmentOfCall(c, p).z
                          /\ color_buf'[p].rgb = <<FragmentOfCall(c, p).rgba[1],
                                                   FragmentOfCall(c, p).rgba[2],
                                                   FragmentOfCall(c, p).rgba[3]>>
                          /\ color_buf'[p].a = FragmentOfCall(c, p).rgba[4]]_vars

\* A finished render where a pixel got a nearer opaque fragment from the first
\* mesh and a farther one of another colour from the second, and kept the first
C4_Witness ==
    /\ rPc = "done"
    /\ \E p \in Pixels : \E c, d \in OpaqueCalls(p) :
           /\ c[1] < d[1]
           /\ ZGt(FragmentOfCall(c, p).z, FragmentOfCall(d, p).z)
           /\ FragmentOfCall(c, p).rgba # FragmentOfCall(d, p).rgba
           /\ DistinctDepths(OpaqueCalls(p), p)
           /\ z_buf[p] = FragmentOfCall(c, p).z

\* The polygon the next loop iteration draws
CurMesh == body_meshes[rMesh]

CurTri == CurMesh.tris[rTri + 1]

PolygonStep == rPc = "draw" /\ rTri' = rTri + 1

HalfHasBadIndex(mesh, a) ==
    \/ ~IndicesOk(a.vi, Len(mesh.px))
    \/ ~IndicesOk(a.ni, mesh.nn)
    \/ ~IndicesOk(a.ti, Len(mesh.uvs))

\* The colour a half with valid vertex indices is drawn in: the texel when
\* there is a texture and the UV indices are valid, else the flat colour
\* (the texture's average, or gray without a texture) at alpha 255
ExpectedRgba(mesh, a) ==
    IF mesh.tex # << >> /\ IndicesOk(a.ti, Len(mesh.uvs)) THEN mesh.tex[1]
    ELSE IF mesh.tex # << >> THEN <<mesh.tex[1][1], mesh.tex[1][2], mesh.tex[1][3], 255>>
    ELSE <<160, 160, 170, 255>>

\* C9 as stated: a polygon each of whose halves has a vertex, normal or UV
\* index out of range writes no pixel to the colour or depth buffer.
C9_AsStated ==
    [][(PolygonStep /\ \A h \in Halves(CurTri) : HalfHasBadIndex(CurMesh, HalfArgs(CurTri, h)))
           => (color_buf' = color_buf /\ z_buf' = z_buf)]_vars

\* C9, amended: no iteration raises; a pixel is written only by a half whose
\* vertex indices are all in range, at that half's depth; and every half
\* whose vertex indices are in range is drawn whatever its normal and UV
\* indices and the other half's indices are: where it covers a pixel in front
\* of the stored depth with alpha >= 8 the pixel ends at least that near, and
\* a pixel it wins has the texel's colour when the UV indices are valid and
\* the mesh's flat colour at alpha 255 when they are not.
C9_InvalidVertexSkipped ==
    [][/\ rPc' # "crashed"
       /\ PolygonStep =>
              \A p \in Pixels :
                  /\ (z_buf'[p] # z_buf[p] \/ color_buf'[p] # color_buf[p]) =>
                         \E h \in Halves(CurTri) :
                             /\ IndicesOk(HalfArgs(CurTri, h).vi, Len(CurMesh.px))
                             /\ Fragment(CurMesh, HalfArgs(CurTri, h).vi,
                                         HalfArgs(CurTri, h).ti, p).inside
                             /\ z_buf'[p] = Fragment(CurMesh, HalfArgs(CurTri, h).vi,
                                                     HalfArgs(CurTri, h).ti, p).z
                             /\ color_buf'[p].a = ExpectedRgba(CurMesh, HalfArgs(CurTri, h))[4]
                             /\ color_buf'[p].rgb =
                                    <<ExpectedRgba(CurMesh, HalfArgs(CurTri, h))[1],
                                      ExpectedRgba(CurMesh, HalfArgs(CurTri, h))[2],
                                      ExpectedRgba(CurMesh, HalfArgs(CurTri, h))[3]>>
                  /\ \A h \in Halves(CurTri) :
                         (/\ IndicesOk(HalfArgs(CurTri, h).vi, Len(CurMesh.px))
                          /\ Fragment(CurMesh, HalfArgs(CurTri, h).vi,
                                      HalfArgs(CurTri, h).ti, p).inside
                          /\ ExpectedRgba(CurMesh, HalfArgs(CurTri, h))[4] >= 8
                          /\ ZGt(Fragment(CurMesh, HalfArgs(CurTri, h).vi,
                                          HalfArgs(CurTri, h).ti, p).z, z_buf[p]))
                             => ~ZGt(Fragment(CurMesh, HalfArgs(CurTri, h).vi,
                                              HalfArgs(CurTri, h).ti, p).z, z_buf'[p])]_vars

\* A finished render that met a polygon with a vertex index out of range and
\* one with valid vertex indices but a UV index out of range, the latter drawn
C9_Witness ==
    /\ rPc = "done"
    /\ \E m \in 1..Len(body_meshes) : \E k \in 1..Len(body_meshes[m].tris) :
           /\ Len(body_meshes[m].px) # 0
           /\ ~IndicesOk(body_meshes[m].tris[k].vi, Len(body_meshes[m].px))
    /\ \E m \in 1..Len(body_meshes) : \E k \in 1..Len(body_meshes[m].tris) :
           /\ IndicesOk(body_meshes[m].tris[k].vi, Len(body_meshes[m].px))
           /\ ~IndicesOk(body_meshes[m].tris[k].ti, Len(body_meshes[m].uvs))
           /\ \E p \in Pixels : color_buf[p].a = 255

\* The calls of the polygon the triangle loop is at
CurrentCalls == {c \in RasterCalls : c[1] = rMesh /\ c[2] = rTri + 1}

\* Pixel p has a depth and was written with alpha at least 8, or neither
DepthIffOpaque(p) == z_buf[p] # NegInf <=> color_buf[p].a >= 8

\* C21: a polygon whose fragments at a pixel all have a texel alpha below 8
\* (or miss the pixel) leaves the colour and the depth of that pixel as they
\* were, so that a later fragment of smaller depth is still written there; at
\* every point of the render a pixel has a finite depth exactly when it holds
\* a colour written with alpha at least 8.
C21_TransparentTexelsSkipped ==
    /\ [](\A p \in Pixels : DepthIffOpaque(p))
    /\ [][(rPc = "draw" /\ rTri' = rTri + 1) =>
            \A p \in Pixels :
                (\A c \in CurrentCalls :
                     ~FragmentOfCall(c, p).inside \/ FragmentOfCall(c, p).rgba[4] < 8)
                => (color_buf'[p] = color_buf[p] /\ z_buf'[p] = z_buf[p])]_vars

\* A finished render of two meshes: the first, nearer, gave a pixel a fragment
\* of alpha below 8, the second, farther, an opaque one, which the pixel holds
C21_Witness ==
    /\ rPc = "done" /\ Len(body_meshes) = 2
    /\ \E p \in Pixels : \E c \in RasterCalls, d \in RasterCalls :
           /\ c[1] = 1 /\ d[1] = 2
           /\ FragmentOfCall(c, p).inside /\ FragmentOfCall(c, p).rgba[4] < 8
           /\ FragmentOfCall(d, p).inside /\ FragmentOfCall(d, p).rgba[4] >= 8
           /\ ZGt(FragmentOfCall(c, p).z, FragmentOfCall(d, p).z)
           /\ z_buf[p] = FragmentOfCall(d, p).z
           /\ color_buf[p].a >= 8

(***************************************************************************)
(* The stream cipher of version 12 containers: _xor_decrypt                *)
(***************************************************************************)
MaxXorLen == 18

\* a ^ b on non-negative integers
RECURSIVE Xor(_, _)
Xor(a, b) ==
    IF a = 0 THEN b
    ELSE IF b = 0 THEN a
    ELSE 2 * Xor(a \div 2, b \div 2) + ((a + b) % 2)

XOR_KEY == <<209, 115, 82, 246, 210, 154, 203, 39, 62, 175, 89, 49, 55, 179, 231, 162>>

\* An index into the key that wraps too early
XorKeyIndexNarrow(i) == i % 8

\* i & 15
XorKeyIndex(i) == i % 16

\* ((data[i] ^ _XOR_KEY[i & 15]) - key) & 0xFF, for the 0-based position i
XorDecryptByte(c, i, key) == (Xor(c, XOR_KEY[XorKeyIndex(i) + 1]) - key) % 256

\* (data[i] + 0x3D) & 0xFF
XorNextKey(c) == (c + 61) % 256

\* The encryption the cipher inverts: c[i] = ((p[i] + r_i) mod 256) XOR K[i mod 16],
\* r_0 = 0x5E, r_i = (c[i-1] + 0x3D) mod 256; positions lo..hi (1-based) of
\* it, given the running key r before lo
RECURSIVE XorEncryptRange(_, _, _, _)
XorEncryptRange(p, lo, hi, r) ==
    IF lo > hi THEN << >>
    ELSE IF lo = hi THEN <<Xor((p[lo] + r) % 256, XOR_KEY[((lo - 1) % 16) + 1])>>
    ELSE LET left == XorEncryptRange(p, lo, (lo + hi) \div 2, r)
         IN  left \o XorEncryptRange(p, ((lo + hi) \div 2) + 1, hi, (left[Len(left)] + 61) % 256)

XorEncrypt(p) == XorEncryptRange(p, 1, Len(p), 94)

\* Plaintexts: every length up to the bound, bytes in arithmetic progression
XorPlaintexts ==
    {[k \in 1..n |-> (b + (k - 1) * d) % 256] :
        n \in 0..MaxXorLen, b \in {0, 94, 200, 255}, d \in {0, 37, 255}}

XorStart ==
    /\ xPlain \in XorPlaintexts
    /\ xData = XorEncrypt(xPlain)
    /\ xOut = [k \in 1..Len(xData) |-> 0]
    /\ xI = 0
    /\ xKey = 94
    /\ xPc = "loop"

\* One iteration of "for i in range(len(data))"
XorLoopStep ==
    /\ xPc = "loop"
    /\ xI < Len(xData)
    /\ xOut' = [xOut EXCEPT ![xI + 1] = XorDecryptByte(xData[xI + 1], xI, xKey)]
    /\ xKey' = XorNextKey(xData[xI + 1])
    /\ xI' = xI + 1
    /\ UNCHANGED <<xPlain, xData, xPc>>
    /\ XorOnly

\* return bytes(out)
XorReturn ==
    /\ xPc = "loop"
    /\ xI = Len(xData)
    /\ xPc' = "done"
    /\ UNCHANGED <<xPlain, xData, xOut, xI, xKey>>
    /\ XorOnly

XorInit ==
    XorStart /\ BatchIdle /\ TrsIdle /\ RasterIdle /\ LeaIdle /\ ParseIdle /\ BonesIdle /\ EffectIdle /\ FilterIdle /\ RenderIdle /\ ClusterIdle /\ TextureIdle /\ CameraIdle /\ IndexIdle /\ StandardizeIdle

XorNext == XorLoopStep \/ XorReturn

SpecXor == XorInit /\ [][XorNext]_vars

(***************************************************************************)
(* Claims about the stream cipher                                          *)
(***************************************************************************)
\* The running key before position i (0-based), from the ciphertext alone
RunningKeyOf(c, i) == IF i = 0 THEN 94 ELSE (c[i] + 61) % 256

\* C5: the output has the length of the input throughout; the bytes decrypted
\* so far are the plaintext's, so that the finished output is the plaintext
\* byte for byte; the running key is the one the ciphertext alone gives; and
\* the finished output is what decrypting each byte on its own with that
\* precomputed key gives.
C5_XorInverse ==
    /\ Len(xOut) = Len(xData)
    /\ Len(xData) = Len(xPlain)
    /\ \A k \in 1..xI : xOut[k] = xPlain[k]
    /\ xPc = "loop" => xKey = RunningKeyOf(xData, xI)
    /\ xPc = "done" =>
           /\ xOut = xPlain
           /\ \A k \in 1..Len(xData) :
                  xOut[k] = (Xor(xData[k], XOR_KEY[((k - 1) % 16) + 1])
                             - RunningKeyOf(xData, k - 1)) % 256

\* A finished decryption of a plaintext longer than the 16-byte key whose
\* ciphertext differs from it
C5_Witness ==
    /\ xPc = "done"
    /\ Len(xPlain) > 16
    /\ xData # xPlain
    /\ xOut = xPlain

(***************************************************************************)
(* The block cipher of version 15 containers: _lea_key_schedule and        *)
(* _lea_decrypt_ecb.  A 32-bit word is the pair <<high half, low half>> of *)
(* its 16-bit halves, so that every operation is exact modulo 2^32.        *)
(***************************************************************************)
MaxBlocks == 2

\* _u32(a + b)
WAdd(a, b) == <<(a[1] + b[1] + ((a[2] + b[2]) \div 65536)) % 65536, (a[2] + b[2]) % 65536>>

\* _u32(a - b)
WSub(a, b) == <<(a[1] - b[1] - (IF a[2] < b[2] THEN 1 ELSE 0)) % 65536, (a[2] - b[2]) % 65536>>

\* a ^ b on 4-bit values, tabulated
NibbleXor == [a \in 0..15 |-> [b \in 0..15 |-> Xor(a, b)]]

\* a ^ b on 16-bit values, four bits at a time
Xor16(a, b) ==
    NibbleXor[a % 16][b % 16]
    + 16 * NibbleXor[(a \div 16) % 16][(b \div 16) % 16]
    + 256 * NibbleXor[(a \div 256) % 16][(b \div 256) % 16]
    + 4096 * NibbleXor[a \div 4096][b \div 4096]

WXor(a, b) == <<Xor16(a[1], b[1]), Xor16(a[2], b[2])>>

\* Rotation to the left by m < 16 bits
RolHalf(x, m) ==
    <<(x[1] % (2 ^ (16 - m))) * (2 ^ m) + (x[2] \div (2 ^ (16 - m))),
      (x[2] % (2 ^ (16 - m))) * (2 ^ m) + (x[1] \div (2 ^ (16 - m)))>>

\* _rol32(x, n), with n &= 31
Rol32(x, n) ==
    IF n % 32 < 16 THEN RolHalf(x, n % 32) ELSE RolHalf(<<x[2], x[1]>>, (n % 32) - 16)

\* Rotation to the right by m < 16 bits
RorHalf(x, m) ==
    <<(x[1] \div (2 ^ m)) + (x[2] % (2 ^ m)) * (2 ^ (16 - m)),
      (x[2] \div (2 ^ m)) + (x[1] % (2 ^ m)) * (2 ^ (16 - m))>>

\* _ror32(x, n), with n &= 31
Ror32(x, n) ==
    IF n % 32 < 16 THEN RorHalf(x, n % 32) ELSE RorHalf(<<x[2], x[1]>>, (n % 32) - 16)

LEA_KEY == <<204, 80, 69, 19, 194, 166, 87, 78, 214, 154, 69, 137, 191, 47, 188, 217,
            57, 179, 179, 189, 80, 189, 204, 182, 133, 70, 209, 214, 22, 84, 224, 135>>

KEY_DELTA == <<<<50159, 59867>>, <<17506, 27394>>, <<31202, 31882>>, <<30943, 12524>>,
              <<29022, 42142>>, <<51077, 55818>>, <<57422, 61994>>, <<58820, 2391>>>>

KeyShifts == <<1, 3, 6, 11, 13, 17>>

\* struct.unpack_from("<I", b, off)[0]: four bytes, least significant first
UnpackWord(b, at) == <<b[at + 3] + 256 * b[at + 4], b[at + 1] + 256 * b[at + 2]>>

\* struct.pack_into("<I", ...): the four bytes of a word
PackWord(w) == <<w[2] % 256, w[2] \div 256, w[1] % 256, w[1] \div 256>>

\* (s + j) & 7 for s = (i * 6) & 7, as a 1-based index into T
KeySlot(i, j) == ((((i * 6) % 8) + j) % 8) + 1

\* The loop "for j, sh in enumerate(shifts)" of round i, from j on
RECURSIVE KeyUpdate(_, _, _)
KeyUpdate(T, i, j) ==
    IF j = 6 THEN T
    ELSE KeyUpdate([T EXCEPT ![KeySlot(i, j)] =
                        Rol32(WAdd(T[KeySlot(i, j)], Rol32(KEY_DELTA[(i % 8) + 1], i + j)),
                              KeyShifts[j + 1])],
                   i, j + 1)

\* The loop "for i in range(32)" from i on; rk grows by six subkeys a round
RECURSIVE KeyRounds(_, _, _)
KeyRounds(T, i, rk) ==
    IF i = 32 THEN rk
    ELSE CHOOSE all \in {KeyRounds(U, i + 1, rk \o [j \in 1..6 |-> U[KeySlot(i, j - 1)]]) :
                            U \in {KeyUpdate(T, i, 0)}} : TRUE

\* _lea_key_schedule
LeaKeySchedule(key) == KeyRounds([k \in 1..8 |-> UnpackWord(key, (k - 1) * 4)], 0, << >>)

\* A round order that runs forward
LeaRoundBaseForward(r) == r * 6

\* base = (31 - r) * 6
LeaRoundBase(r) == (31 - r) * 6

DecT1(s, RK, base) == WXor(WSub(Ror32(s[1], 9), WXor(s[4], RK[base + 1])), RK[base + 2])

DecT2(s, RK, base, t1) == WXor(WSub(Rol32(s[2], 5), WXor(t1, RK[base + 3])), RK[base + 4])

DecT3(s, RK, base, t2) == WXor(WSub(Rol32(s[3], 3), WXor(t2, RK[base + 5])), RK[base + 6])

DecTail(s, RK, base, t1, t2) == <<s[4], t1, t2, DecT3(s, RK, base, t2)>>

\* One round of the loop "for r in range(32)": s = [t0, t1, t2, t3]
LeaDecryptRound(s, RK, base) ==
    DecTail(s, RK, base, DecT1(s, RK, base), DecT2(s, RK, base, DecT1(s, RK, base)))

\* The loop "for r in range(32)" from r on (each round's state is a value
\* before the next round starts)
RECURSIVE LeaDecryptRounds(_, _, _)
LeaDecryptRounds(s, RK, r) ==
    IF r = 32 THEN s
    ELSE CHOOSE t \in {LeaDecryptRounds(v, RK, r + 1) :
                          v \in {LeaDecryptRound(s, RK, LeaRoundBase(r))}} : TRUE

\* The body of "for off in range(0, len(data), 16)" for a whole block: the
\* sixteen bytes written to out at that offset
LeaDecryptBlock(buf, RK, at) ==
    LET s == LeaDecryptRounds([k \in 1..4 |-> UnpackWord(buf, at + (k - 1) * 4)], RK, 0)
    IN  PackWord(s[1]) \o PackWord(s[2]) \o PackWord(s[3]) \o PackWord(s[4])

\* out with the sixteen bytes at the offset replaced
WriteBlock(out, at, blk) ==
    [k \in 1..Len(out) |-> IF at < k /\ k <= at + 16 THEN blk[k - at] ELSE out[k]]

\* _lea_decrypt_ecb from an offset on: whether struct.unpack_from raised on
\* a block with fewer than sixteen bytes, the blocks decrypted and out
RECURSIVE LeaBlocksFrom(_, _, _, _)
LeaBlocksFrom(buf, RK, at, out) ==
    IF at >= Len(buf) THEN [raised |-> FALSE, blocks |-> at \div 16, out |-> out]
    ELSE IF Len(buf) - at < 16 THEN [raised |-> TRUE, blocks |-> at \div 16, out |-> out]
    ELSE LeaBlocksFrom(buf, RK, at + 16, WriteBlock(out, at, LeaDecryptBlock(buf, RK, at)))

LeaDecryptEcb(buf, key) ==
    LeaBlocksFrom(buf, LeaKeySchedule(key), 0, [k \in 1..Len(buf) |-> 0])

\* The encryption the cipher inverts: 32 rounds with the subkeys of rounds
\* 0 to 31 of the same schedule
LeaEncryptRound(s, RK, base) ==
    <<Rol32(WAdd(WXor(s[1], RK[base + 1]), WXor(s[2], RK[base + 2])), 9),
      Ror32(WAdd(WXor(s[2], RK[base + 3]), WXor(s[3], RK[base + 4])), 5),
      Ror32(WAdd(WXor(s[3], RK[base + 5]), WXor(s[4], RK[base + 6])), 3),
      s[1]>>

RECURSIVE LeaEncryptRounds(_, _, _)
LeaEncryptRounds(s, RK, r) ==
    IF r = 32 THEN s
    ELSE CHOOSE t \in {LeaEncryptRounds(v, RK, r + 1) :
                          v \in {LeaEncryptRound(s, RK, r * 6)}} : TRUE

LeaEncryptBlock(x, RK, at) ==
    LET s == LeaEncryptRounds([k \in 1..4 |-> UnpackWord(x, at + (k - 1) * 4)], RK, 0)
    IN  PackWord(s[1]) \o PackWord(s[2]) \o PackWord(s[3]) \o PackWord(s[4])

RECURSIVE LeaEncryptFrom(_, _, _)
LeaEncryptFrom(x, RK, acc) ==
    IF Len(acc) >= Len(x) THEN acc
    ELSE LeaEncryptFrom(x, RK, acc \o LeaEncryptBlock(x, RK, Len(acc)))

LeaEncrypt(x, key) == LeaEncryptFrom(x, LeaKeySchedule(key), << >>)

\* The inputs: two keys, buffers of whole blocks from a menu of three
LeaKeys == {LEA_KEY, [k \in 1..32 |-> (k * 255) % 256]}

LeaBlockMenu ==
    {[k \in 1..16 |-> 0], [k \in 1..16 |-> 255], [k \in 1..16 |-> (77 * k + 3) % 256]}

RECURSIVE Flatten(_)
Flatten(ss) == IF ss = << >> THEN << >> ELSE Head(ss) \o Flatten(Tail(ss))

LeaBuffers == {Flatten(bs) : bs \in SeqsUpTo(LeaBlockMenu, MaxBlocks)}

\* The last c bytes of a buffer dropped
DropLast(b, c) == SubSeq(b, 1, Len(b) - c)

LeaStart ==
    /\ leaKey \in LeaKeys
    /\ leaPlain \in LeaBuffers
    /\ \E c \in {0, 9} :
           /\ c <= Len(leaPlain)
           /\ leaData = DropLast(LeaEncrypt(leaPlain, leaKey), c)
    /\ leaRK = << >>
    /\ leaOut = << >>
    /\ leaOff = 0
    /\ leaPc = "schedule"

\* RK = _lea_key_schedule(key); out = bytearray(len(data))
LeaSchedule ==
    /\ leaPc = "schedule"
    /\ leaRK' = LeaKeySchedule(leaKey)
    /\ leaOut' = [k \in 1..Len(leaData) |-> 0]
    /\ leaPc' = "blocks"
    /\ UNCHANGED <<leaKey, leaPlain, leaData, leaOff>>
    /\ LeaOnly

\* One iteration of "for off in range(0, len(data), 16)" on a whole block
LeaBlock ==
    /\ leaPc = "blocks"
    /\ leaOff < Len(leaData)
    /\ Len(leaData) - leaOff >= 16
    /\ leaOut' = WriteBlock(leaOut, leaOff, LeaDecryptBlock(leaData, leaRK, leaOff))
    /\ leaOff' = leaOff + 16
    /\ UNCHANGED <<leaKey, leaPlain, leaData, leaRK, leaPc>>
    /\ LeaOnly

\* The iteration on a last block of fewer than sixteen bytes: struct.error
LeaShortBlock ==
    /\ leaPc = "blocks"
    /\ leaOff < Len(leaData)
    /\ Len(leaData) - leaOff < 16
    /\ leaPc' = "raised"
    /\ UNCHANGED <<leaKey, leaPlain, leaData, leaRK, leaOut, leaOff>>
    /\ LeaOnly

\* return bytes(out)
LeaReturn ==
    /\ leaPc = "blocks"
    /\ leaOff >= Len(leaData)
    /\ leaPc' = "done"
    /\ UNCHANGED <<leaKey, leaPlain, leaData, leaRK, leaOut, leaOff>>
    /\ LeaOnly

LeaInit ==
    LeaStart /\ BatchIdle /\ TrsIdle /\ RasterIdle /\ XorIdle /\ ParseIdle /\ BonesIdle /\ EffectIdle /\ FilterIdle /\ RenderIdle /\ ClusterIdle /\ TextureIdle /\ CameraIdle /\ IndexIdle /\ StandardizeIdle

LeaNext == LeaSchedule \/ LeaBlock \/ LeaShortBlock \/ LeaReturn

SpecLea == LeaInit /\ [][LeaNext]_vars

(***************************************************************************)
(* Claims about the block cipher                                           *)
(***************************************************************************)
BlockAt(b, o) == SubSeq(b, o + 1, o + 16)

BlockOffsets(n) == {o \in 0..n : o % 16 = 0 /\ o + 16 <= n}

\* C6: for a buffer of whole blocks encrypted under the key, decryption never
\* raises, the blocks decrypted so far are the plaintext's, so that the
\* finished output is the plaintext; the schedule has 192 subkeys, each a
\* 32-bit word; and equal input blocks give equal output blocks wherever they
\* stand (no chaining).
C6_LeaInverse ==
    Len(leaData) % 16 = 0 =>
        /\ leaPc # "raised"
        /\ leaPc \in {"blocks", "done"} =>
               /\ Len(leaRK) = 192
               /\ \A k \in 1..192 : leaRK[k] \in (0..65535) \X (0..65535)
               /\ Len(leaOut) = Len(leaData)
               /\ \A k \in 1..leaOff : leaOut[k] = leaPlain[k]
               /\ \A o1, o2 \in BlockOffsets(leaOff) :
                      BlockAt(leaData, o1) = BlockAt(leaData, o2)
                          => BlockAt(leaOut, o1) = BlockAt(leaOut, o2)
        /\ leaPc = "done" => leaOut = leaPlain

\* A finished decryption under the program's key of two different blocks
C6_Witness ==
    /\ leaPc = "done"
    /\ leaKey = LEA_KEY
    /\ Len(leaData) = 32
    /\ BlockAt(leaPlain, 0) # BlockAt(leaPlain, 16)
    /\ leaData # leaPlain
    /\ leaOut = leaPlain

(***************************************************************************)
(* The BMD parser: parse_bmd.  Bytes are integers 0..255; a float32 is     *)
(* kept as its four bytes.                                                 *)
(***************************************************************************)
MaxCount == 1

MaxKeys == 1

BMD_MAGIC == <<66, 77, 68>>

\* b[lo:hi] for 0 <= lo: a slice never raises, it is cut at the end of b
PySlice(b, lo, hi) == SubSeq(b, lo + 1, Min2(hi, Len(b)))

\* struct.unpack_from succeeds on n bytes at offset o
CanRead(d, o, n) == 0 <= o /\ o + n <= Len(d)

U16At(d, o) == d[o + 1] + 256 * d[o + 2]

I16At(d, o) == IF U16At(d, o) >= 32768 THEN U16At(d, o) - 65536 ELSE U16At(d, o)

U32At(d, o) == U16At(d, o) + 65536 * U16At(d, o + 2)

F32At(d, o) == <<d[o + 1], d[o + 2], d[o + 3], d[o + 4]>>

Vec3At(d, o) == <<F32At(d, o), F32At(d, o + 4), F32At(d, o + 8)>>

\* s.split(b"\x00")[0].decode("ascii", errors="replace")
UpToNul(s) ==
    LET n == CHOOSE k \in 1..(Len(s) + 1) :
                 (k = Len(s) + 1 \/ s[k] = 0) /\ \A j \in 1..(k - 1) : s[j] # 0
    IN  [k \in 1..(n - 1) |-> IF s[k] >= 128 THEN 65533 ELSE s[k]]

\* read_str(length), the string only
ReadStr(d, o, length) == UpToNul(PySlice(d, o, o + length))

\* A run of read_i16 / read_u16 / read_f32 calls of the given widths from
\* offset o: whether all succeeded, and off after the last that did
RECURSIVE AdvanceOver(_, _, _)
AdvanceOver(d, o, widths) ==
    IF widths = << >> THEN [ok |-> TRUE, off |-> o]
    ELSE IF ~CanRead(d, o, Head(widths)) THEN [ok |-> FALSE, off |-> o]
    ELSE AdvanceOver(d, o + Head(widths), Tail(widths))

\* _xor_decrypt as a whole: the key before position i is the one line 115
\* left after position i - 1
XorDecrypt(c) ==
    [k \in 1..Len(c) |->
        XorDecryptByte(c[k], k - 1, IF k = 1 THEN 94 ELSE XorNextKey(c[k - 1]))]

\* enc = raw[8 : 8 + size]
Enc(r) == PySlice(r, 8, 8 + U32At(r, 4))

NotOpened == [raised |-> TRUE, blocks |-> 0, out |-> << >>]

\* Lines 131-141: the magic, the version and the decryption of the payload
OpenResult(r) ==
    IF PySlice(r, 0, 3) # BMD_MAGIC THEN NotOpened
    ELSE IF Len(r) < 4 THEN NotOpened
    ELSE IF r[4] \notin {12, 15} THEN [raised |-> FALSE, blocks |-> 0, out |-> PySlice(r, 4, Len(r))]
    ELSE IF ~CanRead(r, 4, 4) THEN NotOpened
    ELSE IF r[4] = 15 THEN LeaDecryptEcb(Enc(r), LEA_KEY)
    ELSE [raised |-> FALSE, blocks |-> 0, out |-> XorDecrypt(Enc(r))]

\* Which loop runs next, given how many meshes, actions and bones are read
PcFor(c, nm, na, nb) ==
    IF nm < c.mesh_count THEN "mesh"
    ELSE IF na < c.action_count THEN "actions"
    ELSE IF nb < c.bone_count THEN "bones"
    ELSE "return"

\* The record loops of one mesh; np.zeros raises on a negative count
EnterTris(m) == IF m.nt > 0 THEN "tris" ELSE "tex"

EnterUvs(m) == IF m.ntc < 0 THEN "raised" ELSE IF m.ntc > 0 THEN "uvs" ELSE EnterTris(m)

EnterNorms(m) == IF m.nn < 0 THEN "raised" ELSE IF m.nn > 0 THEN "norms" ELSE EnterUvs(m)

EnterVerts(m) == IF m.nv < 0 THEN "raised" ELSE IF m.nv > 0 THEN "verts" ELSE EnterNorms(m)

NewMesh(nv, nn, ntc, nt) ==
    [nv |-> nv, nn |-> nn, ntc |-> ntc, nt |-> nt,
     verts |-> << >>, nodes |-> << >>, norms |-> << >>, uvs |-> << >>, tris |-> << >>]

Four16At(d, o) == <<I16At(d, o), I16At(d, o + 2), I16At(d, o + 4), I16At(d, o + 6)>>

\* Key frame bytes as if every action with key frames had one
RECURSIVE KeyFrameBytesOneFrame(_)
KeyFrameBytesOneFrame(keys) ==
    IF keys = << >> THEN 0
    ELSE (IF Head(keys) > 0 THEN 24 ELSE 0) + KeyFrameBytesOneFrame(Tail(keys))

\* The bytes of key frames a bone record holds: positions and rotations of
\* every action with num_keys # 0, none for a negative num_keys (range() of
\* a negative number is empty)
RECURSIVE KeyFrameBytes(_)
KeyFrameBytes(keys) ==
    IF keys = << >> THEN 0
    ELSE (IF Head(keys) > 0 THEN 24 * Head(keys) ELSE 0) + KeyFrameBytes(Tail(keys))

ZeroVec3 == <<<<0, 0, 0, 0>>, <<0, 0, 0, 0>>, <<0, 0, 0, 0>>>>

\* The inputs.  A payload is built from the numbers of records it declares.
LE16(v) == <<(v + 65536) % 256, ((v + 65536) \div 256) % 256>>

Zeros(n) == [k \in 1..n |-> 0]

Str32(s) == s \o Zeros(32 - Len(s))

FloatBytes(k) == <<k, 0, 128, 63>>

Vec3Bytes(k) == FloatBytes(k) \o FloatBytes(k + 1) \o FloatBytes(k + 2)

VertexBytes(k) == LE16(k - 1) \o <<0, 0>> \o Vec3Bytes(10 * k)

NormalBytes(k) == LE16(k - 1) \o <<0, 0>> \o Vec3Bytes(20 * k) \o LE16(k - 1) \o <<0, 0>>

TexCoordBytes(k) == FloatBytes(30 * k) \o FloatBytes(30 * k + 1)

TriangleBytes(k) ==
    <<3, 0>> \o LE16(0) \o LE16(k) \o LE16(-1) \o LE16(0)
    \o LE16(0) \o LE16(0) \o LE16(0) \o LE16(0)
    \o LE16(0) \o LE16(0) \o LE16(0) \o LE16(0) \o [j \in 1..38 |-> 200 + k]

\* n records, each built by one of the operators above
RECURSIVE Records(_, _, _)
Records(kind, k, n) ==
    IF k > n THEN << >>
    ELSE (CASE kind = "v" -> VertexBytes(k)
            [] kind = "n" -> NormalBytes(k)
            [] kind = "t" -> TexCoordBytes(k)
            [] kind = "f" -> TriangleBytes(k)
            [] kind = "k" -> Vec3Bytes(40 * k)) \o Records(kind, k + 1, n)

\* A mesh that declares n records of each kind (a negative n: no record)
MeshBytes(n) ==
    LE16(n) \o LE16(n) \o LE16(n) \o LE16(n) \o LE16(0)
    \o Records("v", 1, n) \o Records("n", 1, n) \o Records("t", 1, n) \o Records("f", 1, n)
    \o Str32(<<97, 46, 106, 112, 103>>)

ActionBytes(a) ==
    LE16(a.num_keys) \o <<a.lock>> \o (IF a.lock > 0 THEN Records("k", 1, a.num_keys) ELSE << >>)

\* The first float of key frame k of action a: positions (part 0) and
\* rotations (part 1) of different actions and frames all differ
KeyFloat(a, part, k) == 60 * a + 30 * part + 3 * k

\* n key frames of one part of action a (a negative n: none)
KeyFrames(a, part, n) == Flatten([k \in 1..n |-> Vec3Bytes(KeyFloat(a, part, k))])

\* A bone: dummy, or a name, a parent and its key frames for every action
BoneBytes(b, acts) ==
    IF b.dummy THEN <<1>>
    ELSE <<0>> \o Str32(<<66, 49>>) \o LE16(b.parent)
         \o Flatten([a \in 1..Len(acts) |->
                        KeyFrames(a, 0, acts[a].num_keys) \o KeyFrames(a, 1, acts[a].num_keys)])

Payload(c) ==
    Str32(<<109>>) \o LE16(c.mesh_count) \o LE16(Len(c.bones)) \o LE16(Len(c.actions))
    \o Flatten([m \in 1..Len(c.meshes) |-> MeshBytes(c.meshes[m])])
    \o Flatten([a \in 1..Len(c.actions) |-> ActionBytes(c.actions[a])])
    \o Flatten([b \in 1..Len(c.bones) |-> BoneBytes(c.bones[b], c.actions)])

Config(mc, ms, as, bs) == [mesh_count |-> mc, meshes |-> ms, actions |-> as, bones |-> bs]

Act(nk, lock) == [num_keys |-> nk, lock |-> lock]

Bone(dummy, parent) == [dummy |-> dummy, parent |-> parent]

HeaderOnly == Config(0, << >>, << >>, << >>)

OneActionOnly == Config(0, << >>, <<Act(MaxKeys, 1)>>, << >>)

PlainConfigs ==
    {HeaderOnly,
     OneActionOnly,
     Config(1, <<MaxCount>>, << >>, << >>),
     Config(1, <<0>>, <<Act(MaxKeys, 1), Act(0, 0)>>, <<Bone(FALSE, -1), Bone(TRUE, 0)>>),
     Config(101, << >>, << >>, << >>),
     Config(1, <<-1>>, << >>, << >>),
     Config(0, << >>, <<Act(MaxKeys + 1, 0), Act(0, 1), Act(MaxKeys, 0)>>,
            <<Bone(FALSE, 1), Bone(TRUE, 0), Bone(FALSE, -1)>>),
     Config(0, << >>, <<Act(0, 0), Act(MaxKeys, 0)>>, <<Bone(FALSE, 0)>>),
     Config(0, << >>, <<Act(MaxKeys, 0), Act(-1, 0)>>, <<Bone(FALSE, -1)>>),
     Config(0, << >>, <<Act(-1, 0)>>, <<Bone(TRUE, 0), Bone(FALSE, -1)>>),
     Config(0, << >>, <<Act(-1, 1), Act(MaxKeys, 0)>>, <<Bone(TRUE, 0)>>),
     Config(0, << >>, << >>, <<Bone(FALSE, 0)>>)}

LE32(v) == LE16(v % 65536) \o LE16(v \div 65536)

Pad16(b) == b \o Zeros((16 - (Len(b) % 16)) % 16)

PlainFile(p) == BMD_MAGIC \o <<10>> \o p

XorFile(p) == BMD_MAGIC \o <<12>> \o LE32(Len(p)) \o XorEncrypt(p)

LeaFile(p) == BMD_MAGIC \o <<15>> \o LE32(Len(Pad16(p))) \o LeaEncrypt(Pad16(p), LEA_KEY)

Files ==
    {PlainFile(Payload(c)) : c \in PlainConfigs}
    \cup {XorFile(Payload(c)) : c \in {OneActionOnly, Config(1, <<MaxCount>>, << >>, << >>)}}
    \cup {LeaFile(Payload(c)) : c \in {HeaderOnly, OneActionOnly}}

\* The file is any prefix of a complete file
ParseStart ==
    /\ fullFile \in Files
    /\ raw \in {SubSeq(fullFile, 1, n) : n \in 0..Len(fullFile)}
    /\ data = << >>
    /\ off = 0
    /\ leaBlocksDone = 0
    /\ counts = << >>
    /\ cur_mesh = << >>
    /\ meshes = << >>
    /\ actions_keys = << >>
    /\ bones = << >>
    /\ pPc = "open"

\* An exception leaves parse_bmd with the cursor at o
ParseRaise(o) ==
    /\ pPc' = "raised"
    /\ off' = o
    /\ UNCHANGED <<fullFile, raw, data, leaBlocksDone, counts, cur_mesh, meshes, actions_keys, bones>>

\* Lines 128-143
ParseOpenTo(r) ==
    /\ leaBlocksDone' = r.blocks
    /\ data' = (IF r.raised THEN << >> ELSE r.out)
    /\ pPc' = (IF r.raised THEN "raised" ELSE "header")
    /\ UNCHANGED <<fullFile, raw, off, counts, cur_mesh, meshes, actions_keys, bones>>

ParseOpen ==
    /\ pPc = "open"
    /\ ParseOpenTo(OpenResult(raw))
    /\ ParseOnly

\* Lines 169-175: the name, the three counts and the mesh-count check
ParseHeader ==
    /\ pPc = "header"
    /\ IF ~AdvanceOver(data, 32, <<2, 2, 2>>).ok
       THEN ParseRaise(AdvanceOver(data, 32, <<2, 2, 2>>).off)
       ELSE IF U16At(data, 32) > 100 \/ U16At(data, 32) < 0 THEN ParseRaise(38)
       ELSE /\ counts' = [mesh_count |-> U16At(data, 32), bone_count |-> U16At(data, 34),
                          action_count |-> U16At(data, 36)]
            /\ off' = 38
            /\ pPc' = PcFor(counts', 0, 0, 0)
            /\ UNCHANGED <<fullFile, raw, data, leaBlocksDone, cur_mesh, meshes, actions_keys, bones>>
    /\ ParseOnly

\* Lines 179-187: the five counts of a mesh and the allocation of verts
ParseMeshCounts ==
    /\ pPc = "mesh"
    /\ IF ~AdvanceOver(data, off, <<2, 2, 2, 2, 2>>).ok
       THEN ParseRaise(AdvanceOver(data, off, <<2, 2, 2, 2, 2>>).off)
       ELSE /\ cur_mesh' = NewMesh(I16At(data, off), I16At(data, off + 2), I16At(data, off + 4),
                                   I16At(data, off + 6))
            /\ off' = off + 10
            /\ pPc' = EnterVerts(cur_mesh')
            /\ UNCHANGED <<fullFile, raw, data, leaBlocksDone, counts, meshes, actions_keys, bones>>
    /\ ParseOnly

\* Lines 188-193: one vertex record
ParseVertex ==
    /\ pPc = "verts"
    /\ IF ~AdvanceOver(data, off, <<2, 2, 4, 4, 4>>).ok
       THEN ParseRaise(AdvanceOver(data, off, <<2, 2, 4, 4, 4>>).off)
       ELSE /\ cur_mesh' = [cur_mesh EXCEPT !.nodes = Append(@, I16At(data, off)),
                                            !.verts = Append(@, Vec3At(data, off + 4))]
            /\ off' = off + 16
            /\ pPc' = (IF Len(cur_mesh'.verts) < cur_mesh.nv THEN "verts" ELSE EnterNorms(cur_mesh))
            /\ UNCHANGED <<fullFile, raw, data, leaBlocksDone, counts, meshes, actions_keys, bones>>
    /\ ParseOnly

\* Lines 197-204: one normal record
ParseNormal ==
    /\ pPc = "norms"
    /\ IF ~AdvanceOver(data, off, <<2, 2, 4, 4, 4, 2, 2>>).ok
       THEN ParseRaise(AdvanceOver(data, off, <<2, 2, 4, 4, 4, 2, 2>>).off)
       ELSE /\ cur_mesh' = [cur_mesh EXCEPT !.norms = Append(@, Vec3At(data, off + 4))]
            /\ off' = off + 20
            /\ pPc' = (IF Len(cur_mesh'.norms) < cur_mesh.nn THEN "norms" ELSE EnterUvs(cur_mesh))
            /\ UNCHANGED <<fullFile, raw, data, leaBlocksDone, counts, meshes, actions_keys, bones>>
    /\ ParseOnly

\* Lines 208-210: one texture coordinate
ParseTexCoord ==
    /\ pPc = "uvs"
    /\ IF ~AdvanceOver(data, off, <<4, 4>>).ok
       THEN ParseRaise(AdvanceOver(data, off, <<4, 4>>).off)
       ELSE /\ cur_mesh' = [cur_mesh EXCEPT !.uvs = Append(@, <<F32At(data, off), F32At(data, off + 4)>>)]
            /\ off' = off + 8
            /\ pPc' = (IF Len(cur_mesh'.uvs) < cur_mesh.ntc THEN "uvs" ELSE EnterTris(cur_mesh))
            /\ UNCHANGED <<fullFile, raw, data, leaBlocksDone, counts, meshes, actions_keys, bones>>
    /\ ParseOnly

\* Lines 215-221: one triangle record; its reads end 26 bytes after base and
\* the cursor moves on by 64
ParseTriangle ==
    /\ pPc = "tris"
    /\ IF ~(off < Len(data)) \/ ~CanRead(data, off + 2, 24)
       THEN ParseRaise(off)
       ELSE /\ cur_mesh' = [cur_mesh EXCEPT !.tris =
                               Append(@, [poly |-> data[off + 1], vi |-> Four16At(data, off + 2),
                                          ni |-> Four16At(data, off + 10),
                                          ti |-> Four16At(data, off + 18)])]
            /\ off' = off + 64
            /\ pPc' = (IF Len(cur_mesh'.tris) < cur_mesh.nt THEN "tris" ELSE "tex")
            /\ UNCHANGED <<fullFile, raw, data, leaBlocksDone, counts, meshes, actions_keys, bones>>
    /\ ParseOnly

\* Lines 223-232: the texture path, and the mesh joins meshes
ParseTexPath ==
    /\ pPc = "tex"
    /\ meshes' = Append(meshes, [verts |-> cur_mesh.verts, nodes |-> cur_mesh.nodes,
                                 norms |-> cur_mesh.norms, uvs |-> cur_mesh.uvs,
                                 tris |-> cur_mesh.tris, tex_path |-> ReadStr(data, off, 32)])
    /\ off' = off + 32
    /\ pPc' = PcFor(counts, Len(meshes'), 0, 0)
    /\ UNCHANGED <<fullFile, raw, data, leaBlocksDone, counts, cur_mesh, actions_keys, bones>>
    /\ ParseOnly

\* Lines 237-242: one action record; the key positions are skipped unread
ParseAction ==
    /\ pPc = "actions"
    /\ IF ~CanRead(data, off, 2) THEN ParseRaise(off)
       ELSE IF ~(off + 2 < Len(data)) THEN ParseRaise(off + 2)
       ELSE /\ actions_keys' = Append(actions_keys, I16At(data, off))
            /\ off' = off + 3 + (IF data[off + 3] > 0 THEN I16At(data, off) * 12 ELSE 0)
            /\ pPc' = PcFor(counts, Len(meshes), Len(actions_keys'), 0)
            /\ UNCHANGED <<fullFile, raw, data, leaBlocksDone, counts, cur_mesh, meshes, bones>>
    /\ ParseOnly

\* Lines 247-281: one bone record
ParseBone ==
    /\ pPc = "bones"
    /\ IF ~(0 <= off /\ off < Len(data)) THEN ParseRaise(off)
       ELSE IF data[off + 1] > 0
       THEN /\ bones' = Append(bones, [parent |-> -1, is_dummy |-> TRUE,
                                       bind_position |-> ZeroVec3, bind_rotation |-> ZeroVec3])
            /\ off' = off + 1
            /\ pPc' = PcFor(counts, Len(meshes), Len(actions_keys), Len(bones'))
            /\ UNCHANGED <<fullFile, raw, data, leaBlocksDone, counts, cur_mesh, meshes, actions_keys>>
       ELSE IF ~CanRead(data, off + 33, 2) THEN ParseRaise(off + 33)
       ELSE IF actions_keys # << >> /\ actions_keys[1] < 0 THEN ParseRaise(off + 35)
       ELSE IF ~CanRead(data, off + 35, KeyFrameBytes(actions_keys))
       THEN ParseRaise(off + 35 + 4 * ((Len(data) - (off + 35)) \div 4))
       ELSE /\ bones' = Append(bones,
                           [parent |-> I16At(data, off + 33), is_dummy |-> FALSE,
                            bind_position |->
                                IF actions_keys # << >> /\ actions_keys[1] > 0
                                THEN Vec3At(data, off + 35) ELSE ZeroVec3,
                            bind_rotation |->
                                IF actions_keys # << >> /\ actions_keys[1] > 0
                                THEN Vec3At(data, off + 35 + 12 * actions_keys[1]) ELSE ZeroVec3])
            /\ off' = off + 35 + KeyFrameBytes(actions_keys)
            /\ pPc' = PcFor(counts, Len(meshes), Len(actions_keys), Len(bones'))
            /\ UNCHANGED <<fullFile, raw, data, leaBlocksDone, counts, cur_mesh, meshes, actions_keys>>
    /\ ParseOnly

\* return meshes, bones
ParseReturn ==
    /\ pPc = "return"
    /\ pPc' = "returned"
    /\ UNCHANGED <<fullFile, raw, data, off, leaBlocksDone, counts, cur_mesh, meshes, actions_keys, bones>>
    /\ ParseOnly

ParseInit ==
    ParseStart /\ BatchIdle /\ TrsIdle /\ RasterIdle /\ XorIdle /\ LeaIdle /\ BonesIdle /\ EffectIdle /\ FilterIdle /\ RenderIdle /\ ClusterIdle /\ TextureIdle /\ CameraIdle /\ IndexIdle /\ StandardizeIdle

ParseNext ==
    \/ ParseOpen \/ ParseHeader \/ ParseMeshCounts \/ ParseVertex \/ ParseNormal
    \/ ParseTexCoord \/ ParseTriangle \/ ParseTexPath \/ ParseAction \/ ParseBone
    \/ ParseReturn

SpecParse == ParseInit /\ [][ParseNext]_vars

(***************************************************************************)
(* Claims about the parser                                                 *)
(***************************************************************************)
IsLeaContainer(r) == PySlice(r, 0, 3) = BMD_MAGIC /\ CanRead(r, 4, 4) /\ r[4] = 15

\* C7 as stated: for a version 15 container whose encrypted payload is not a
\* multiple of 16 bytes long, the length is rejected before any block is
\* decrypted, parse_bmd fails and nothing is parsed or returned.
C7_AsStated ==
    (pPc # "open" /\ IsLeaContainer(raw) /\ Len(Enc(raw)) % 16 # 0) =>
        /\ pPc = "raised"
        /\ leaBlocksDone = 0
        /\ counts = << >> /\ meshes = << >> /\ bones = << >>

\* C8 as stated: a file that ends before its declared structure is complete
\* never makes parse_bmd return a result.
C8_AsStated == Len(raw) < Len(fullFile) => pPc # "returned"

(***************************************************************************)
(* Bone world matrices: _euler_to_quat, _quat_to_mat33 and                 *)
(* _build_bone_world_matrices.  Bind rotations are whole numbers of half   *)
(* turns per axis and bind positions whole numbers, for which the sines,   *)
(* cosines, quaternions and matrices are exact integers.                   *)
(***************************************************************************)
MaxBones == 3

Identity4 == <<<<1, 0, 0, 0>>, <<0, 1, 0, 0>>, <<0, 0, 1, 0>>, <<0, 0, 0, 1>>>>

\* A @ B on 4x4 matrices
MatMul4(A, B) ==
    [r \in 1..4 |-> [c \in 1..4 |->
        A[r][1] * B[1][c] + A[r][2] * B[2][c] + A[r][3] * B[3][c] + A[r][4] * B[4][c]]]

\* math.sin and math.cos of half of k half turns
SinQuarter(k) == <<0, 1, 0, -1>>[(k % 4) + 1]

CosQuarter(k) == <<1, 0, -1, 0>>[(k % 4) + 1]

\* Lines 874-877 from the six sines and cosines; the norm of line 878 is 1
QuatOf(sx, cx, sy, cy, sz, cz) ==
    [x |-> sx * cy * cz - cx * sy * sz,
     y |-> cx * sy * cz + sx * cy * sz,
     z |-> cx * cy * sz - sx * sy * cz,
     w |-> cx * cy * cz + sx * sy * sz]

\* _euler_to_quat(rx, ry, rz) for rot in half turns
EulerToQuat(rot) ==
    QuatOf(SinQuarter(rot[1]), CosQuarter(rot[1]), SinQuarter(rot[2]), CosQuarter(rot[2]),
           SinQuarter(rot[3]), CosQuarter(rot[3]))

\* _quat_to_mat33, with the bind position as fourth column: local
LocalOfQuat(q, pos) ==
    <<<<1 - 2 * (q.y * q.y + q.z * q.z), 2 * (q.x * q.y - q.w * q.z),
        2 * (q.x * q.z + q.w * q.y), pos[1]>>,
      <<2 * (q.x * q.y + q.w * q.z), 1 - 2 * (q.x * q.x + q.z * q.z),
        2 * (q.y * q.z - q.w * q.x), pos[2]>>,
      <<2 * (q.x * q.z - q.w * q.y), 2 * (q.y * q.z + q.w * q.x),
        1 - 2 * (q.x * q.x + q.y * q.y), pos[3]>>,
      <<0, 0, 0, 1>>>>

\* Lines 906-913: qx, qy, qz, qw = _euler_to_quat(*rot), then local
LocalMatrix(bone) ==
    CHOOSE local \in {LocalOfQuat(q, bone.bind_position) :
                         q \in {EulerToQuat(bone.bind_rotation)}} : TRUE

\* A parent test that forgets the negative side
ParentUsableNoLowerBound(parent, i, n) == parent < n /\ parent # i

\* 0 <= parent < n and parent != i
ParentUsable(parent, i, n) == 0 <= parent /\ parent < n /\ parent # i

\* The bones: a dummy, a bone without rotation, and bones turned half a turn
\* about X whose parent is any index from -2 to n
DummyBone == [parent |-> -1, is_dummy |-> TRUE, bind_position |-> <<0, 0, 0>>,
              bind_rotation |-> <<0, 0, 0>>]

BoneMenu ==
    {DummyBone,
     [parent |-> -1, is_dummy |-> FALSE, bind_position |-> <<0, 0, 5>>,
      bind_rotation |-> <<0, 0, 0>>]}
    \cup {[parent |-> p, is_dummy |-> FALSE, bind_position |-> <<1, 2, 3>>,
           bind_rotation |-> <<1, 0, 0>>] : p \in (-2)..MaxBones}

\* Before the call
BonesStart ==
    /\ bone_list = << >> /\ worlds = << >> /\ wI = 0 /\ wPc = "call"

\* The call with some bone list: n = len(bones), worlds = n identities
BonesCall ==
    /\ wPc = "call"
    /\ bone_list' \in SeqsUpTo(BoneMenu, MaxBones)
    /\ worlds' = [k \in 1..Len(bone_list') |-> Identity4]
    /\ wI' = 0
    /\ wPc' = "loop"
    /\ BonesOnly

\* An iteration that multiplies the parent's matrix on the other side
WorldsAfterLocalFirst(w, bone, i, local) ==
    IF bone.is_dummy THEN w
    ELSE IF ParentUsable(bone.parent, i, Len(w))
    THEN [w EXCEPT ![i + 1] = MatMul4(local, At(w, bone.parent))]
    ELSE [w EXCEPT ![i + 1] = local]

\* worlds after the iteration for the bone of 0-based index i, whose local
\* matrix is local
WorldsAfter(w, bone, i, local) ==
    IF bone.is_dummy THEN w
    ELSE IF ParentUsable(bone.parent, i, Len(w))
    THEN [w EXCEPT ![i + 1] = MatMul4(At(w, bone.parent), local)]
    ELSE [w EXCEPT ![i + 1] = local]

\* One iteration of "for i in range(n)"; worlds[parent] raises IndexError
\* outside Python's index range
BoneIteration ==
    /\ wPc = "loop"
    /\ wI < Len(bone_list)
    /\ IF /\ ~bone_list[wI + 1].is_dummy
          /\ ParentUsable(bone_list[wI + 1].parent, wI, Len(bone_list))
          /\ ~PyIndexOk(worlds, bone_list[wI + 1].parent)
       THEN wPc' = "raised" /\ UNCHANGED <<worlds, wI>>
       ELSE /\ \E local \in {LocalMatrix(bone_list[wI + 1])} :
                   worlds' = WorldsAfter(worlds, bone_list[wI + 1], wI, local)
            /\ wI' = wI + 1
            /\ UNCHANGED wPc
    /\ UNCHANGED bone_list
    /\ BonesOnly

\* return worlds
BonesReturn ==
    /\ wPc = "loop"
    /\ wI = Len(bone_list)
    /\ wPc' = "done"
    /\ UNCHANGED <<bone_list, worlds, wI>>
    /\ BonesOnly

BonesInit ==
    BonesStart /\ BatchIdle /\ TrsIdle /\ RasterIdle /\ XorIdle /\ LeaIdle /\ ParseIdle /\ EffectIdle /\ FilterIdle /\ RenderIdle /\ ClusterIdle /\ TextureIdle /\ CameraIdle /\ IndexIdle /\ StandardizeIdle

BonesNext == BonesCall \/ BoneIteration \/ BonesReturn

SpecBones == BonesInit /\ [][BonesNext]_vars

\* The loop is sequential code: an iteration that can run does run
SpecBonesFair == SpecBones /\ WF_vars(BonesNext)

(***************************************************************************)
(* Claims about the bone world matrices                                    *)
(***************************************************************************)
\* The local matrix of a bone of the menu, written out: the identity or the
\* half turn about X as rotation block, the bind position as last column
ExpectedLocal(bone) ==
    IF bone.bind_rotation = <<0, 0, 0>>
    THEN <<<<1, 0, 0, bone.bind_position[1]>>, <<0, 1, 0, bone.bind_position[2]>>,
           <<0, 0, 1, bone.bind_position[3]>>, <<0, 0, 0, 1>>>>
    ELSE <<<<1, 0, 0, bone.bind_position[1]>>, <<0, -1, 0, bone.bind_position[2]>>,
           <<0, 0, -1, bone.bind_position[3]>>, <<0, 0, 0, 1>>>>

\* The bone of 1-based index k is a root by the claim's rule: its parent is
\* its own index or lies outside [0, n)
RootByRule(k) ==
    \/ bone_list[k].parent = k - 1
    \/ bone_list[k].parent < 0
    \/ bone_list[k].parent >= Len(bone_list)

BonesInv ==
    /\ wPc # "raised"
    /\ wI <= Len(bone_list)
    /\ Len(worlds) = Len(bone_list)
    /\ wPc = "done" => wI = Len(bone_list)
    /\ \A k \in 1..Len(bone_list) :
           /\ k > wI => worlds[k] = Identity4
           /\ (k <= wI /\ bone_list[k].is_dummy) => worlds[k] = Identity4
           /\ (k <= wI /\ ~bone_list[k].is_dummy /\ RootByRule(k))
                  => worlds[k] = ExpectedLocal(bone_list[k])

\* C10: the loop handles each bone once, in order, and then returns, whatever
\* the parent indices are (its own index, negative, beyond the list, cycles);
\* it never raises; a dummy bone keeps the identity and a non-dummy bone whose
\* parent is its own index or outside [0, n) gets its local matrix as world.
C10_OnePassRoots ==
    /\ []BonesInv
    /\ [][\/ wPc = "call" /\ wI' = 0 /\ wPc' = "loop"
          \/ wPc = "loop" /\ wI' = wI + 1 /\ wPc' = "loop"
          \/ wPc = "loop" /\ wI' = wI /\ wI = Len(bone_list) /\ wPc' = "done"]_vars
    /\ <>(wPc = "done")

\* A finished pass over a self-parented bone, a bone with a negative parent
\* and a dummy
C10_Witness ==
    /\ wPc = "done"
    /\ \E k \in 1..Len(bone_list) :
           /\ ~bone_list[k].is_dummy /\ bone_list[k].parent = k - 1
           /\ worlds[k] = ExpectedLocal(bone_list[k]) /\ worlds[k] # Identity4
    /\ \E k \in 1..Len(bone_list) :
           /\ ~bone_list[k].is_dummy /\ bone_list[k].parent = -2
           /\ k >= 3
           /\ worlds[k] = ExpectedLocal(bone_list[k])
    /\ \E k \in 1..Len(bone_list) : bone_list[k].is_dummy /\ worlds[k] = Identity4

\* The bone of 1-based index k is not a dummy and has a parent in [0, n) other
\* than itself
HasParent(k) == ~bone_list[k].is_dummy /\ ~RootByRule(k)

\* C16 as stated: in the returned list the world matrix of every non-dummy
\* bone with a parent in range and not itself is the returned world matrix of
\* the parent times the bone's local matrix, wherever the parent is declared.
C16_AsStated ==
    wPc = "done" =>
        \A k \in 1..Len(bone_list) :
            HasParent(k) =>
                worlds[k] = MatMul4(worlds[bone_list[k].parent + 1], ExpectedLocal(bone_list[k]))

\* C16: for a non-dummy bone with a parent in range and not itself, the
\* returned world matrix is the parent's returned world matrix times the
\* bone's local matrix when the parent is declared before the bone, and the
\* bone's local matrix alone when the parent is declared after it.
C16_ParentDeclaredBefore ==
    wPc = "done" =>
        \A k \in 1..Len(bone_list) :
            HasParent(k) =>
                worlds[k] = IF bone_list[k].parent + 1 < k
                            THEN MatMul4(worlds[bone_list[k].parent + 1],
                                         ExpectedLocal(bone_list[k]))
                            ELSE ExpectedLocal(bone_list[k])

\* A returned list with a bone whose parent comes later and moved, and a bone
\* whose parent comes earlier and moved
C16_Witness ==
    /\ wPc = "done"
    /\ \E k \in 1..Len(bone_list) :
           /\ HasParent(k) /\ bone_list[k].parent + 1 > k
           /\ worlds[bone_list[k].parent + 1] # Identity4
    /\ \E k \in 1..Len(bone_list) :
           /\ HasParent(k) /\ bone_list[k].parent + 1 < k
           /\ worlds[bone_list[k].parent + 1] # Identity4
           /\ worlds[k] # ExpectedLocal(bone_list[k])

(***************************************************************************)
(* Effect-mesh test: _is_effect_mesh.  Texture paths are sequences of      *)
(* one-character strings.                                                  *)
(***************************************************************************)
MaxMeshVerts == 9

MaxMeshTris == 5

UpperCase == <<"A", "B", "C", "D", "E", "F", "G", "H", "I", "J", "K", "L", "M", "N", "O", "P", "Q", "R", "S", "T", "U", "V", "W", "X", "Y", "Z">>

LowerCase == <<"a", "b", "c", "d", "e", "f", "g", "h", "i", "j", "k", "l", "m", "n", "o", "p", "q", "r", "s", "t", "u", "v", "w", "x", "y", "z">>

Digits == {"0", "1", "2", "3", "4", "5", "6", "7", "8", "9"}

\* str.lower()
LowerChar(c) ==
    IF \E k \in 1..26 : UpperCase[k] = c
    THEN LowerCase[CHOOSE k \in 1..26 : UpperCase[k] = c]
    ELSE c

Lower(s) == [k \in 1..Len(s) |-> LowerChar(s[k])]

\* str.replace('\\', '/')
SlashesOf(s) == [k \in 1..Len(s) |-> IF s[k] = "\\" THEN "/" ELSE s[k]]

\* The positions of character c in s
PositionsOf(s, c) == {k \in 1..Len(s) : s[k] = c}

SetMax(S) == CHOOSE x \in S : \A y \in S : y <= x

SetMin(S) == CHOOSE x \in S : \A y \in S : x <= y

\* PurePath.name for a path without trailing slash: what follows the last "/"
PathName(s) ==
    IF PositionsOf(s, "/") = {} THEN s
    ELSE SubSeq(s, SetMax(PositionsOf(s, "/")) + 1, Len(s))

\* PurePath.stem: the name up to its last dot, unless that dot is the first
\* or the last character of the name
StemOfName(name) ==
    IF PositionsOf(name, ".") = {} THEN name
    ELSE IF SetMax(PositionsOf(name, ".")) = 1 \/ SetMax(PositionsOf(name, ".")) = Len(name)
    THEN name
    ELSE SubSeq(name, 1, SetMax(PositionsOf(name, ".")) - 1)

PathStem(s) == StemOfName(PathName(s))

\* s.startswith(p)
StartsWith(s, p) == Len(p) <= Len(s) /\ SubSeq(s, 1, Len(p)) = p

\* p in s
Contains(s, p) == \E k \in 0..(Len(s) - Len(p)) : SubSeq(s, k + 1, k + Len(p)) = p

\* "gra" at offset k of the stem, followed by a digit, "_" or the end
GraAt(stem, k) ==
    /\ Len(stem) >= k + 3
    /\ SubSeq(stem, k + 1, k + 3) = <<"g", "r", "a">>
    /\ (Len(stem) = k + 3 \/ stem[k + 4] \in Digits \/ stem[k + 4] = "_")

\* _GRADIENT_EFFECT_RE.match(stem): ^(?:mini_|hangul)?gra(?:\d|_|$)
GradientEffectMatch(stem) ==
    \/ StartsWith(stem, <<"m", "i", "n", "i", "_">>) /\ GraAt(stem, 5)
    \/ StartsWith(stem, <<"h", "a", "n", "g", "u", "l">>) /\ GraAt(stem, 6)
    \/ GraAt(stem, 0)

EFFECT_PATTERNS ==
    {<<"g", "l", "o", "w">>,
     <<"b", "l", "u", "r">>,
     <<"f", "l", "a", "r", "e">>,
     <<"f", "i", "r", "e">>,
     <<"f", "l", "a", "m", "e">>,
     <<"l", "i", "g", "h", "t", "n", "i", "n", "g">>,
     <<"e", "l", "e", "c", "_", "l", "i", "g", "h", "t">>,
     <<"a", "r", "r", "o", "w", "l", "i", "g", "h", "t">>,
     <<"l", "i", "g", "h", "t", "i", "n", "g", "_", "m", "e", "g", "a">>,
     <<"e", "f", "f", "e", "c", "t">>,
     <<"l", "i", "g", "h", "t", "m", "a", "r", "k", "s">>,
     <<"l", "i", "g", "h", "t", "_", "b", "l", "u", "e">>,
     <<"l", "i", "g", "h", "t", "_", "r", "e", "d">>,
     <<"s", "h", "i", "n", "y">>,
     <<"s", "p", "a", "r", "k">>,
     <<"a", "u", "r", "a">>,
     <<"e", "n", "e", "r", "g", "y">>,
     <<"p", "l", "a", "s", "m", "a">>,
     <<"c", "h", "r", "o", "m", "e">>,
     <<"s", "h", "i", "n", "e">>,
     <<"h", "a", "l", "o">>,
     <<"t", "r", "a", "i", "l">>,
     <<"g", "r", "a", "d", "a", "t", "i", "o", "n">>}

\* (verts.max(axis=0) - verts.min(axis=0)).max()
AxisExtent(verts, a) ==
    SetMax({verts[k][a] : k \in 1..Len(verts)}) - SetMin({verts[k][a] : k \in 1..Len(verts)})

MeshSpan(verts) == Max3(AxisExtent(verts, 1), AxisExtent(verts, 2), AxisExtent(verts, 3))

\* A size test that counts a span of exactly 20 as large
SpanIsLargeOrEqual(span) == span >= 20

\* span > 20
SpanIsLarge(span) == span > 20

\* _is_effect_mesh(mesh), tex being mesh['tex_path'].lower()
IsEffectOf(m, lowered) ==
    IF GradientEffectMatch(PathStem(SlashesOf(lowered))) THEN TRUE
    ELSE IF \E p \in EFFECT_PATTERNS : Contains(lowered, p) THEN TRUE
    ELSE IF Len(m.verts) <= 8 /\ Len(m.tris) <= 4
    THEN ~(Len(m.verts) > 0 /\ SpanIsLarge(MeshSpan(m.verts)))
    ELSE FALSE

IsEffectMesh(m) == CHOOSE r \in {IsEffectOf(m, lowered) : lowered \in {Lower(m.tex_path)}} : TRUE

\* The texture paths of the input meshes
TexPaths ==
    {<<"g", "r", "a", "2", ".", "j", "p", "g">>,
     <<"I", "t", "e", "m", "\\", "G", "R", "A", ".", "O", "Z", "J">>,
     <<"m", "i", "n", "i", "_", "g", "r", "a", "_", "1", ".", "t", "g", "a">>,
     <<"h", "a", "n", "g", "u", "l", "g", "r", "a", "_", "r", ".", "j", "p", "g">>,
     <<"g", "r", "a", "s", "s", ".", "j", "p", "g">>,
     <<"s", "w", "o", "r", "d", "0", "1", ".", "j", "p", "g">>,
     <<"G", "l", "o", "w", "0", "1", ".", "J", "P", "G">>,
     <<"e", "f", "f", "e", "c", "t", "\\", "s", "w", "o", "r", "d", ".", "j", "p", "g">>,
     << >>,
     <<"i", "t", "e", "m", "\\", "g", "r", "a", "2", "\\", "b", "l", "a", "d", "e", ".", "j", "p", "g">>,
     <<"x", "g", "r", "a", "2", ".", "j", "p", "g">>,
     <<"m", "i", "n", "i", "g", "r", "a", ".", "j", "p", "g">>,
     <<"S", "p", "a", "r", "k", "_", "0", "1">>,
     <<"g", "r", "a", ".", "x", ".", "j", "p", "g">>}

\* Where the one vertex that is not at the origin lies
FarCorners ==
    {<<15, 15, 0>>, <<20, 0, 0>>, <<0, 21, 0>>, <<-10, 0, 11>>, <<12, 12, 12>>, <<3, 4, 0>>}

\* n vertices: the first at far, the others at the origin
VertsWith(n, far) == [k \in 1..n |-> IF k = 1 THEN far ELSE <<0, 0, 0>>]

EffectMeshes ==
    {[verts |-> VertsWith(nv, far), tris |-> [k \in 1..nt |-> GoodTri], tex_path |-> p] :
        nv \in 0..MaxMeshVerts, far \in FarCorners, nt \in 0..MaxMeshTris, p \in TexPaths}

EffectStart ==
    /\ effMesh \in EffectMeshes
    /\ effResult = << >>
    /\ effPc = "call"

\* The call of _is_effect_mesh(mesh)
EffectCall ==
    /\ effPc = "call"
    /\ effResult' = <<IsEffectMesh(effMesh)>>
    /\ effPc' = "returned"
    /\ UNCHANGED effMesh
    /\ EffectOnly

EffectInit ==
    EffectStart /\ BatchIdle /\ TrsIdle /\ RasterIdle /\ XorIdle /\ LeaIdle /\ ParseIdle /\ BonesIdle /\ FilterIdle /\ RenderIdle /\ ClusterIdle /\ TextureIdle /\ CameraIdle /\ IndexIdle /\ StandardizeIdle

EffectNext == EffectCall

SpecEffect == EffectInit /\ [][EffectNext]_vars

(***************************************************************************)
(* Claims about the effect-mesh test                                       *)
(***************************************************************************)
\* The input paths whose stem follows the gradient naming (gra, gra2,
\* mini_gra_1, hangulgra_r), in any letter case
GradientNamed ==
    {<<"g", "r", "a", "2", ".", "j", "p", "g">>,
     <<"I", "t", "e", "m", "\\", "G", "R", "A", ".", "O", "Z", "J">>,
     <<"m", "i", "n", "i", "_", "g", "r", "a", "_", "1", ".", "t", "g", "a">>,
     <<"h", "a", "n", "g", "u", "l", "g", "r", "a", "_", "r", ".", "j", "p", "g">>}

\* The input paths that hold an effect keyword, in any letter case
KeywordNamed ==
    {<<"G", "l", "o", "w", "0", "1", ".", "J", "P", "G">>,
     <<"e", "f", "f", "e", "c", "t", "\\", "s", "w", "o", "r", "d", ".", "j", "p", "g">>,
     <<"S", "p", "a", "r", "k", "_", "0", "1">>}

TextureSaysEffect == effMesh.tex_path \in GradientNamed \cup KeywordNamed

SmallGeometry == Len(effMesh.verts) <= 8 /\ Len(effMesh.tris) <= 4

\* Bounding box of the mesh: the far vertex and, with two or more vertices,
\* the origin
BoxExtent(a) == IF Len(effMesh.verts) >= 2 THEN Abs(effMesh.verts[1][a]) ELSE 0

\* The diagonal of the bounding box exceeds 20
DiagonalOver20 ==
    BoxExtent(1) * BoxExtent(1) + BoxExtent(2) * BoxExtent(2) + BoxExtent(3) * BoxExtent(3) > 400

\* The largest side of the bounding box exceeds 20
LargestSideOver20 == \E a \in 1..3 : BoxExtent(a) > 20

MaxFilterTris == 4

\* min_verts: int = 6
DefaultMinVerts == 6

\* indices = vi[:4] if poly == 4 else vi[:3]
PolyIndices(t) == IF t.poly = 4 THEN SubSeq(t.vi, 1, 4) ELSE SubSeq(t.vi, 1, 3)

\* The pairs the double loop over a < b adds to adj for one polygon
PolyEdges(ix, nv) ==
    {<<ix[a], ix[b]>> : a \in 1..Len(ix), b \in 1..Len(ix)}
    \cap {e \in (0..(nv - 1)) \X (0..(nv - 1)) :
            \E a \in 1..Len(ix) : \E b \in (a + 1)..Len(ix) : e = <<ix[a], ix[b]>>}

\* adj as a set of pairs
AdjEdges(tris, nv) == UNION {PolyEdges(PolyIndices(tris[k]), nv) : k \in 1..Len(tris)}

\* adj[v]
AdjOf(E, v) == {e[2] : e \in {d \in E : d[1] = v}} \cup {e[1] : e \in {d \in E : d[2] = v}}

\* v in adj
InAdj(E, v) == \E e \in E : e[1] = v \/ e[2] = v

\* The vertices the stack loop started from S visits
RECURSIVE Visit(_, _)
Visit(E, S) ==
    IF UNION {AdjOf(E, v) : v \in S} \subseteq S THEN S
    ELSE Visit(E, S \cup UNION {AdjOf(E, v) : v \in S})

\* components, from vertex v on, visited being the vertices already in one
RECURSIVE ComponentsFrom(_, _, _, _)
ComponentsFrom(E, nv, v, visited) ==
    IF v >= nv THEN << >>
    ELSE IF v \in visited \/ ~InAdj(E, v) THEN ComponentsFrom(E, nv, v + 1, visited)
    ELSE <<Visit(E, {v})>> \o ComponentsFrom(E, nv, v + 1, visited \cup Visit(E, {v}))

\* max(components, key=len): the first of the longest
LargestIndex(components) ==
    CHOOSE k \in 1..Len(components) :
        /\ \A j \in 1..Len(components) : Cardinality(components[j]) <= Cardinality(components[k])
        /\ \A j \in 1..(k - 1) : Cardinality(components[j]) < Cardinality(components[k])

RECURSIVE SumOver(_, _, _)
SumOver(verts, comp, a) ==
    IF comp = {} THEN 0
    ELSE verts[SetMin(comp) + 1][a] + SumOver(verts, comp \ {SetMin(comp)}, a)

\* max(verts[comp].max(axis=0) - verts[comp].min(axis=0))
CompSpan(verts, comp) ==
    SetMax({SetMax({verts[v + 1][a] : v \in comp}) - SetMin({verts[v + 1][a] : v \in comp}) :
               a \in 1..3})

\* Squared distance of the two centroids, times (|comp| * |largest|)^2
CentroidGap2(verts, comp, largest) ==
    LET d(a) == SumOver(verts, comp, a) * Cardinality(largest)
                    - SumOver(verts, largest, a) * Cardinality(comp)
    IN  d(1) * d(1) + d(2) * d(2) + d(3) * d(3)

SpanReach2(verts, comp, largest) ==
    4 * CompSpan(verts, largest) * CompSpan(verts, largest)
      * Cardinality(comp) * Cardinality(comp) * Cardinality(largest) * Cardinality(largest)

\* A distance test that also keeps a centroid at exactly 0.4 spans
CentroidIsNearOrAt(verts, comp, largest) ==
    25 * CentroidGap2(verts, comp, largest) <= SpanReach2(verts, comp, largest)

\* dist < largest_span * 0.4
CentroidIsNear(verts, comp, largest) ==
    25 * CentroidGap2(verts, comp, largest) < SpanReach2(verts, comp, largest)

\* keep_verts
KeepVerts(verts, components, min_verts) ==
    UNION {components[k] : k \in
        {j \in 1..Len(components) :
            \/ j = LargestIndex(components)
            \/ Cardinality(components[j]) >= min_verts
            \/ CentroidIsNear(verts, components[j], components[LargestIndex(components)])}}

FilterWith(m, components, min_verts) ==
    IF Len(components) <= 1 THEN m
    ELSE [m EXCEPT !.tris =
             SelectSeq(m.tris, LAMBDA t :
                 \A k \in 1..3 : t.vi[k] \in KeepVerts(m.verts, components, min_verts))]

\* _filter_mesh_components(mesh, min_verts)
FilterMeshComponents(m, min_verts) ==
    IF Len(m.verts) = 0 \/ Len(m.tris) = 0 THEN m
    ELSE CHOOSE r \in {FilterWith(m, components, min_verts) :
             components \in {ComponentsFrom(AdjEdges(m.tris, Len(m.verts)), Len(m.verts), 0, {})}} : TRUE

\* The vertices of the input meshes: a 10 x 10 square (0-3), a small triangle
\* near its middle (4-6), two far quads sharing two corners (7-12), a
\* triangle whose centroid is 4 away from the middle of the square (13-15)
FilterVerts ==
    <<<<0, 0, 0>>, <<10, 0, 0>>, <<0, 10, 0>>, <<10, 10, 0>>,
      <<4, 4, 0>>, <<5, 4, 0>>, <<4, 5, 0>>,
      <<30, 0, 0>>, <<31, 0, 0>>, <<30, 1, 0>>, <<31, 1, 0>>, <<30, 2, 0>>, <<31, 2, 0>>,
      <<9, 5, 0>>, <<9, 4, 0>>, <<9, 6, 0>>>>

Poly(poly, vi) == Tri(poly, vi, <<0, 0, 0, 0>>, <<0, 0, 0, 0>>)

\* The polygons of the input meshes, in the order they appear in a mesh
FilterPolys ==
    <<Poly(4, <<7, 8, 10, 9>>),
      Poly(3, <<0, 1, 2, 0>>),
      Poly(3, <<4, 5, 6, 0>>),
      Poly(4, <<0, 1, 3, 2>>),
      Poly(3, <<13, 14, 15, 0>>),
      Poly(3, <<0, 1, 99, 0>>),
      Poly(4, <<9, 10, 12, 11>>),
      Poly(3, <<-1, 4, 5, 0>>),
      Poly(4, <<2, 3, 4, 5>>),
      Poly(3, <<7, 8, 9, 3>>)>>

\* The polygons at the positions P, in order
RECURSIVE PolysAt(_)
PolysAt(P) == IF P = {} THEN << >> ELSE <<FilterPolys[SetMin(P)]>> \o PolysAt(P \ {SetMin(P)})

FilterMeshes ==
    {[verts |-> v, tris |-> PolysAt(P), tex_path |-> <<"a">>] :
        v \in {FilterVerts, << >>},
        P \in {Q \in SUBSET (1..Len(FilterPolys)) : Cardinality(Q) <= MaxFilterTris}}

FilterStart ==
    /\ filtMesh \in FilterMeshes
    /\ filtOut = << >>
    /\ filtPc = "call"

\* The call of _filter_mesh_components(mesh)
FilterCall ==
    /\ filtPc = "call"
    /\ filtOut' = <<FilterMeshComponents(filtMesh, DefaultMinVerts)>>
    /\ filtPc' = "returned"
    /\ UNCHANGED filtMesh
    /\ FilterOnly

FilterInit ==
    FilterStart /\ BatchIdle /\ TrsIdle /\ RasterIdle /\ XorIdle /\ LeaIdle /\ ParseIdle /\ BonesIdle /\ EffectIdle /\ RenderIdle /\ ClusterIdle /\ TextureIdle /\ CameraIdle /\ IndexIdle /\ StandardizeIdle

FilterNext == FilterCall

SpecFilter == FilterInit /\ [][FilterNext]_vars

(***************************************************************************)
(* Claims about the connected-component filter                             *)
(***************************************************************************)
\* The pairs of vertices joined by a chain of polygon edges: the edges, both
\* ways round, closed under chaining through vertex k, k + 1, ...
RECURSIVE ChainClosure(_, _, _)
ChainClosure(R, k, nv) ==
    IF k >= nv THEN R
    ELSE ChainClosure(R \cup {<<e[1], f[2]>> : e \in {d \in R : d[2] = k}, f \in {d \in R : d[1] = k}},
                      k + 1, nv)

Joined ==
    ChainClosure(AdjEdges(filtMesh.tris, Len(filtMesh.verts))
                     \cup {<<e[2], e[1]>> : e \in AdjEdges(filtMesh.tris, Len(filtMesh.verts))},
                 0, Len(filtMesh.verts))

\* The connected components of the mesh, as a set of vertex sets
Islands == {{v} \cup {e[2] : e \in {d \in Joined : d[1] = v}} : v \in {e[1] : e \in Joined}}

\* The centroid of island C lies less than 0.4 spans of island L from the
\* centroid of L
WithinReach(C, L) ==
    25 * CentroidGap2(filtMesh.verts, C, L) < SpanReach2(filtMesh.verts, C, L)

\* The vertices kept when L is the largest island
KeptAround(L) ==
    L \cup UNION {C \in Islands \ {L} : Cardinality(C) >= 6 \/ WithinReach(C, L)}

\* The input polygons, in order, whose first three vertices are all in K
PolysWithin(K) ==
    SelectSeq(filtMesh.tris, LAMBDA t : t.vi[1] \in K /\ t.vi[2] \in K /\ t.vi[3] \in K)

\* C19: with two or more connected components the output polygons are the
\* input polygons, in order, whose first three vertices lie in kept
\* components, where a largest component is kept and any other is kept exactly
\* when it has 6 or more vertices or its centroid is less than 0.4 of the
\* largest component's span away from the largest component's centroid; with
\* fewer components the mesh comes back as it was; nothing but the polygon list
\* ever differs.
C19_KeepLargestAndNear ==
    filtPc = "returned" =>
        /\ [filtOut[1] EXCEPT !.tris = filtMesh.tris] = filtMesh
        /\ Cardinality(Islands) <= 1 => filtOut[1] = filtMesh
        /\ Cardinality(Islands) >= 2 =>
               \E L \in Islands :
                   /\ \A C \in Islands : Cardinality(C) <= Cardinality(L)
                   /\ filtOut[1].tris = PolysWithin(KeptAround(L))

\* The square, the small triangle near its middle and a far quad: the far
\* quad goes, the other two stay
C19_Witness ==
    /\ filtPc = "returned"
    /\ Cardinality(Islands) = 3
    /\ \E C \in Islands : Cardinality(C) < 6 /\ C \cap {0, 1, 2, 3} = {}
                          /\ \E t \in Range(filtOut[1].tris) : t.vi[1] \in C
    /\ \E C \in Islands : \E t \in Range(filtMesh.tris) :
           t.vi[1] \in C /\ t \notin Range(filtOut[1].tris)
    /\ \E t \in Range(filtOut[1].tris) : t.vi[1] = 0

(***************************************************************************)
(* render_bmd and its caller process_item.  An image is kept as its width, *)
(* its height and the number of its pixels with alpha > 0; what the        *)
(* rasterizer and the image library make of the pixels is any of a few     *)
(* counts.                                                                 *)
(***************************************************************************)
MaxRenderMeshes == 2

RENDER_SIZE == 256

\* worlds after the loop of _build_bone_world_matrices, from bone i on
RECURSIVE WorldsFrom(_, _, _)
WorldsFrom(w, bone_seq, i) ==
    IF i >= Len(bone_seq) THEN w
    ELSE CHOOSE r \in {WorldsFrom(v, bone_seq, i + 1) :
             v \in {WorldsAfter(w, bone_seq[i + 1], i, LocalMatrix(bone_seq[i + 1]))}} : TRUE

\* _build_bone_world_matrices(bones)
BuildBoneWorldMatrices(bone_seq) ==
    WorldsFrom([k \in 1..Len(bone_seq) |-> Identity4], bone_seq, 0)

\* (M @ [x, y, z, 1])[:3]
TransformPoint(M, v) ==
    [a \in 1..3 |-> M[a][1] * v[1] + M[a][2] * v[2] + M[a][3] * v[3] + M[a][4]]

\* The vertex loop of _apply_bone_transforms for one mesh
PosedVerts(m, w) ==
    [i \in 1..Len(m.verts) |->
        IF m.nodes[i] < 0 \/ m.nodes[i] >= Len(w) THEN m.verts[i]
        ELSE TransformPoint(w[m.nodes[i] + 1], m.verts[i])]

PoseWith(mesh_seq, w) ==
    IF \A k \in 1..Len(w) : w[k] = Identity4 THEN mesh_seq
    ELSE [k \in 1..Len(mesh_seq) |-> [mesh_seq[k] EXCEPT !.verts = PosedVerts(mesh_seq[k], w)]]

\* _apply_bone_transforms(meshes, bones): the meshes afterwards
ApplyBoneTransforms(mesh_seq, bone_seq) ==
    IF bone_seq = << >> THEN mesh_seq
    ELSE CHOOSE r \in {PoseWith(mesh_seq, w) : w \in {BuildBoneWorldMatrices(bone_seq)}} : TRUE

\* A rule that lets an explicit bones = True switch the pose back on for a
\* binary entry
UseBonesToggleWins(entryOpt) ==
    IF entryOpt = << >> THEN TRUE
    ELSE IF "bones" \in DOMAIN entryOpt[1] THEN entryOpt[1].bones
    ELSE entryOpt[1].source # "binary"

\* use_bones of render_bmd
UseBones(entryOpt) ==
    IF entryOpt # << >> /\ "bones" \in DOMAIN entryOpt[1] /\ entryOpt[1].bones = FALSE THEN FALSE
    ELSE entryOpt = << >> \/ entryOpt[1].source # "binary"

\* A mesh choice that falls back to no mesh at all
BodyOfNoFallback(mesh_seq) == SelectSeq(mesh_seq, LAMBDA m : ~IsEffectMesh(m))

\* body before the component filter
BodyOf(mesh_seq) ==
    IF SelectSeq(mesh_seq, LAMBDA m : ~IsEffectMesh(m)) = << >> THEN mesh_seq
    ELSE SelectSeq(mesh_seq, LAMBDA m : ~IsEffectMesh(m))

\* body_meshes of _compute_view_matrix
BodyMeshes(mesh_seq) ==
    [k \in 1..Len(BodyOf(mesh_seq)) |-> FilterMeshComponents(BodyOf(mesh_seq)[k], DefaultMinVerts)]

\* [m["verts"] for m in body_meshes if len(m["verts"]) > 0]
VertArrays(body) == SelectSeq([k \in 1..Len(body) |-> body[k].verts], LAMBDA v : Len(v) > 0)

\* Some polygon of some mesh with vertices passes the vertex-index test
SomethingToDraw(body) ==
    \E k \in 1..Len(body) : \E j \in 1..Len(body[k].tris) :
        /\ Len(body[k].verts) > 0
        /\ VertexIndicesInRange(body[k].tris[j].vi, Len(body[k].verts))

\* The numbers of opaque pixels an image may end with
OpaqueCounts == {0, 9, 10}

Image(w, h, n, via) == [w |-> w, h |-> h, opaque |-> n, via |-> via]

\* A downsample that leaves the image at the render size
DownsampledKeepSize(img, size, n) == Image(img.w, img.h, n, "downsampled")

\* premul.resize((size, size), Image.LANCZOS)
Downsampled(img, size, n) == Image(size, size, n, "downsampled")

\* The inputs
PlainTex == <<"a", ".", "j", "p", "g">>

GlowTex == <<"g", "r", "a", "2", ".", "j", "p", "g">>

WideVerts == <<<<0, 0, 0>>, <<30, 0, 0>>, <<0, 30, 0>>>>

RenderMesh(verts, nodes, tris, tex_path) ==
    [verts |-> verts, nodes |-> nodes, tris |-> tris, tex_path |-> tex_path]

\* No vertices; wide with a triangle; wide without polygons; wide with a glow
\* texture; a small triangle; wide with a vertex index out of range
RenderMeshMenu ==
    {RenderMesh(<< >>, << >>, << >>, PlainTex),
     RenderMesh(WideVerts, <<0, 1, 5>>, <<GoodTri>>, PlainTex),
     RenderMesh(WideVerts, <<0, 0, 0>>, << >>, PlainTex),
     RenderMesh(WideVerts, <<1, 1, 1>>, <<GoodTri>>, GlowTex),
     RenderMesh(<<<<0, 0, 0>>, <<1, 0, 0>>, <<0, 1, 0>>>>, <<-1, 0, 1>>, <<GoodTri>>, PlainTex),
     RenderMesh(WideVerts, <<0, 0, 0>>, <<Poly(3, <<0, 1, 7, 0>>)>>, PlainTex)}

RenderBoneMenu ==
    {<< >>,
     <<DummyBone>>,
     <<[parent |-> -1, is_dummy |-> FALSE, bind_position |-> <<0, 0, 5>>,
        bind_rotation |-> <<0, 0, 0>>],
       [parent |-> 0, is_dummy |-> FALSE, bind_position |-> <<1, 2, 3>>,
        bind_rotation |-> <<1, 0, 0>>]>>}

BinaryEntry == TableRecord @@ [source |-> "binary"]

CustomEntry == MakeTrsEntry([rotY |-> 90, scale |-> 2])

\* None, a binary entry (also with "bones" set) and a custom one (likewise)
RenderEntryMenu ==
    {<< >>, <<BinaryEntry>>, <<CustomEntry>>}
    \cup {<<e @@ [bones |-> b]>> : e \in {BinaryEntry, CustomEntry}, b \in BOOLEAN}

Opts(size, standardize, supersample) ==
    [size |-> size, standardize |-> standardize, supersample |-> supersample]

DirectOpts == {Opts(1, FALSE, 1), Opts(48, TRUE, 1), Opts(48, FALSE, 2), Opts(48, TRUE, 3)}

RenderStart ==
    /\ rbMeshes \in SeqsUpTo(RenderMeshMenu, MaxRenderMeshes)
    /\ rbBones \in RenderBoneMenu
    /\ rbEntry \in RenderEntryMenu
    /\ \/ rbCaller = "process_item" /\ rbOpts = Opts(RENDER_SIZE, TRUE, 2) /\ rbPc = "item"
       \/ rbCaller = "direct" /\ rbOpts \in DirectOpts /\ rbPc = "pose"
    /\ use_bones = << >> /\ rbBody = << >> /\ rbView = << >>
    /\ rbImg = << >> /\ rbItem = << >>

\* process_item after parse_bmd: "if not meshes" and the call of render_bmd
ItemEntry ==
    /\ rbPc = "item"
    /\ IF rbMeshes = << >>
       THEN rbItem' = <<[ok |-> FALSE, err |-> "No meshes in BMD"]>> /\ rbPc' = "item_done"
       ELSE rbPc' = "pose" /\ UNCHANGED rbItem
    /\ UNCHANGED <<rbCaller, rbMeshes, rbBones, rbEntry, rbOpts, use_bones, rbBody, rbView, rbImg>>
    /\ RenderOnly

\* use_bones, and _apply_bone_transforms when it is set
RenderPose ==
    /\ rbPc = "pose"
    /\ use_bones' = <<UseBones(rbEntry)>>
    /\ rbMeshes' = IF UseBones(rbEntry) THEN ApplyBoneTransforms(rbMeshes, rbBones) ELSE rbMeshes
    /\ rbPc' = "view"
    /\ UNCHANGED <<rbCaller, rbBones, rbEntry, rbOpts, rbBody, rbView, rbImg, rbItem>>
    /\ RenderOnly

\* R, body_meshes = _compute_view_matrix(meshes, trs_entry)
RenderComputeView ==
    /\ rbPc = "view"
    /\ rbView' = <<ComputeViewMatrix(rbEntry)>>
    /\ rbBody' = BodyMeshes(rbMeshes)
    /\ rbPc' = "stack"
    /\ UNCHANGED <<rbCaller, rbMeshes, rbBones, rbEntry, rbOpts, use_bones, rbImg, rbItem>>
    /\ RenderOnly

\* all_verts = np.vstack([...]): ValueError for an empty list; then the
\* return of an empty canvas when all_verts has no row
RenderStack ==
    /\ rbPc = "stack"
    /\ IF VertArrays(rbBody) = << >>
       THEN rbPc' = "raised" /\ UNCHANGED rbImg
       ELSE IF Len(Flatten(VertArrays(rbBody))) = 0
       THEN rbImg' = <<Image(rbOpts.size, rbOpts.size, 0, "canvas")>> /\ rbPc' = "returned"
       ELSE rbPc' = "raster" /\ UNCHANGED rbImg
    /\ UNCHANGED <<rbCaller, rbMeshes, rbBones, rbEntry, rbOpts, use_bones, rbBody, rbView, rbItem>>
    /\ RenderOnly

\* The mesh loop over color_buf of render_size x render_size, and
\* Image.fromarray: no pixel without a polygon to draw
RenderRaster ==
    /\ rbPc = "raster"
    /\ \E n \in OpaqueCounts :
        /\ n > 0 => SomethingToDraw(rbBody)
        /\ rbImg' = <<Image(rbOpts.size * rbOpts.supersample, rbOpts.size * rbOpts.supersample,
                            n, "raster")>>
    /\ rbPc' = "downsample"
    /\ UNCHANGED <<rbCaller, rbMeshes, rbBones, rbEntry, rbOpts, use_bones, rbBody, rbView, rbItem>>
    /\ RenderOnly

\* if supersample > 1: premultiply, resize to (size, size), unpremultiply
RenderDownsample ==
    /\ rbPc = "downsample"
    /\ IF rbOpts.supersample > 1
       THEN \E n \in OpaqueCounts :
               /\ n > 0 => rbImg[1].opaque > 0
               /\ rbImg' = <<Downsampled(rbImg[1], rbOpts.size, n)>>
       ELSE UNCHANGED rbImg
    /\ rbPc' = "clusters"
    /\ UNCHANGED <<rbCaller, rbMeshes, rbBones, rbEntry, rbOpts, use_bones, rbBody, rbView, rbItem>>
    /\ RenderOnly

\* img = _remove_small_clusters(img): the same image, or one of the same
\* size with some clusters erased
RenderClusters ==
    /\ rbPc = "clusters"
    /\ \/ UNCHANGED rbImg
       \/ /\ rbImg[1].opaque > 0
          /\ \E n \in OpaqueCounts :
               /\ n <= rbImg[1].opaque
               /\ rbImg' = <<Image(rbImg[1].w, rbImg[1].h, n, "clusters")>>
    /\ rbPc' = "standardize"
    /\ UNCHANGED <<rbCaller, rbMeshes, rbBones, rbEntry, rbOpts, use_bones, rbBody, rbView, rbItem>>
    /\ RenderOnly

\* if standardize: _standardize_item_image(img, size, ...), which returns img
\* itself with fewer than 10 opaque pixels or when the rotation leaves none,
\* and else a new size x size canvas with the scaled content pasted
RenderStandardize ==
    /\ rbPc = "standardize"
    /\ IF ~rbOpts.standardize \/ rbImg[1].opaque < 10
       THEN UNCHANGED rbImg
       ELSE \/ UNCHANGED rbImg
            \/ \E n \in OpaqueCounts :
                 rbImg' = <<Image(rbOpts.size, rbOpts.size, n, "standardized")>>
    /\ rbPc' = "returned"
    /\ UNCHANGED <<rbCaller, rbMeshes, rbBones, rbEntry, rbOpts, use_bones, rbBody, rbView, rbItem>>
    /\ RenderOnly

\* process_item: img.save(...) and return name, True, ""
ItemSave ==
    /\ rbPc = "returned"
    /\ rbCaller = "process_item"
    /\ rbItem' = <<[ok |-> TRUE, err |-> ""]>>
    /\ rbPc' = "item_done"
    /\ UNCHANGED <<rbCaller, rbMeshes, rbBones, rbEntry, rbOpts, use_bones, rbBody, rbView, rbImg>>
    /\ RenderOnly

\* process_item: except Exception as e: return name, False, str(e)
ItemExcept ==
    /\ rbPc = "raised"
    /\ rbCaller = "process_item"
    /\ rbItem' = <<[ok |-> FALSE, err |-> "need at least one array to concatenate"]>>
    /\ rbPc' = "item_done"
    /\ UNCHANGED <<rbCaller, rbMeshes, rbBones, rbEntry, rbOpts, use_bones, rbBody, rbView, rbImg>>
    /\ RenderOnly

RenderInit ==
    RenderStart /\ BatchIdle /\ TrsIdle /\ RasterIdle /\ XorIdle /\ LeaIdle /\ ParseIdle /\ BonesIdle /\ EffectIdle /\ FilterIdle /\ ClusterIdle /\ TextureIdle /\ CameraIdle /\ IndexIdle /\ StandardizeIdle

RenderNext ==
    \/ ItemEntry \/ RenderPose \/ RenderComputeView \/ RenderStack \/ RenderRaster
    \/ RenderDownsample \/ RenderClusters \/ RenderStandardize \/ ItemSave \/ ItemExcept

SpecRender == RenderInit /\ [][RenderNext]_vars

(***************************************************************************)
(* Claims about render_bmd and process_item                                *)
(***************************************************************************)
\* The item has nothing to render: no mesh, no mesh with a vertex, or no
\* polygon that can be drawn
NoRenderableGeometry ==
    \/ rbMeshes = << >>
    \/ \A k \in 1..Len(rbMeshes) : Len(rbMeshes[k].verts) = 0
    \/ ~SomethingToDraw(BodyMeshes(rbMeshes))

TransparentCanvas(img) == img.w = rbOpts.size /\ img.h = rbOpts.size /\ img.opaque = 0

\* C12 as stated: without renderable geometry render_bmd raises nothing and
\* returns a fully transparent size x size canvas, and process_item reports
\* success.
C12_AsStated ==
    (rbCaller # "none" /\ NoRenderableGeometry) =>
        /\ rbPc # "raised"
        /\ rbPc = "returned" => TransparentCanvas(rbImg[1])
        /\ rbItem # << >> => rbItem[1].ok

\* C15: every image render_bmd returns has the width and the height of the
\* caller's size, whatever the supersampling factor (1 or more), with or
\* without standardization, and also when standardization hands back its
\* input (fewer than 10 opaque pixels, or none left after the rotation).
C15_ReturnsSizeSquare ==
    rbPc \in {"returned", "item_done"} /\ rbImg # << >> =>
        rbImg[1].w = rbOpts.size /\ rbImg[1].h = rbOpts.size

\* A supersampled render with standardization on that returns the downsampled
\* image itself, having fewer than 10 opaque pixels
C15_Witness ==
    /\ rbPc = "returned"
    /\ rbOpts.supersample > 1 /\ rbOpts.standardize
    /\ rbImg[1].via = "downsampled" /\ rbImg[1].opaque = 9
    /\ rbImg[1].w = rbOpts.size

\* The OrientationSpec is measured and its bone toggle is not set to TRUE
SkipAsStated(entryOpt) ==
    /\ entryOpt # << >>
    /\ entryOpt[1].source = "binary"
    /\ ~("bones" \in DOMAIN entryOpt[1] /\ entryOpt[1].bones = TRUE)

\* An OrientationSpec is supplied, and it is measured or its bone toggle is
\* set to FALSE
SkipByCode(entryOpt) ==
    /\ entryOpt # << >>
    /\ \/ entryOpt[1].source = "binary"
       \/ ("bones" \in DOMAIN entryOpt[1] /\ entryOpt[1].bones = FALSE)

\* The pose step of render_bmd left every mesh as it was
PoseSkipped == use_bones' = <<FALSE>> /\ rbMeshes' = rbMeshes

\* The pose step of render_bmd ran _apply_bone_transforms on the meshes
PoseApplied == use_bones' = <<TRUE>> /\ rbMeshes' = ApplyBoneTransforms(rbMeshes, rbBones)

\* C17 as stated: the pose is skipped exactly for a measured OrientationSpec
\* whose bone toggle is not explicitly enabled, and applied in every other
\* case.
C17_AsStated ==
    [][rbPc = "pose" => IF SkipAsStated(rbEntry) THEN PoseSkipped ELSE PoseApplied]_vars

\* C17: render_bmd skips the pose exactly when an OrientationSpec is supplied
\* that is measured ('binary'), whatever its bone toggle, or whose bone toggle
\* is FALSE, whatever its provenance; it runs _apply_bone_transforms in every
\* other case (no OrientationSpec, or override provenance with the toggle
\* absent or TRUE); when the pose is skipped no vertex position is changed.
C17_SkipMeasuredOrDisabled ==
    [][rbPc = "pose" => IF SkipByCode(rbEntry) THEN PoseSkipped ELSE PoseApplied]_vars

\* After the pose step: a measured entry with the toggle TRUE, bones that
\* would move the vertices, and the vertices where they were
C17_Witness ==
    /\ rbPc = "view"
    /\ rbEntry # << >> /\ rbEntry[1].source = "binary"
    /\ "bones" \in DOMAIN rbEntry[1] /\ rbEntry[1].bones = TRUE
    /\ use_bones = <<FALSE>>
    /\ ApplyBoneTransforms(rbMeshes, rbBones) # rbMeshes

\* A mesh without its polygons, which the component filter may thin out
MeshIdentity(m) == [verts |-> m.verts, nodes |-> m.nodes, tex_path |-> m.tex_path]

MeshIdentities(mesh_seq) == [k \in 1..Len(mesh_seq) |-> MeshIdentity(mesh_seq[k])]

\* C18: when _compute_view_matrix returns, the mesh list handed to the
\* rasterizer is non-empty whenever the input list is; it holds exactly the
\* non-effect meshes in input order if there is one, and all input meshes in
\* input order if every mesh is an effect mesh.
C18_BodyNeverEmpty ==
    rbPc = "stack" =>
        /\ rbMeshes # << >> => rbBody # << >>
        /\ MeshIdentities(rbBody) =
               IF \E k \in 1..Len(rbMeshes) : ~IsEffectMesh(rbMeshes[k])
               THEN MeshIdentities(SelectSeq(rbMeshes, LAMBDA m : ~IsEffectMesh(m)))
               ELSE MeshIdentities(rbMeshes)

\* Two meshes, both effect meshes, both handed on
C18_Witness ==
    /\ rbPc = "stack"
    /\ Len(rbMeshes) = 2 /\ rbMeshes[1] # rbMeshes[2]
    /\ \A k \in 1..2 : IsEffectMesh(rbMeshes[k])
    /\ MeshIdentities(rbBody) = MeshIdentities(rbMeshes)

(***************************************************************************)
(* Small-cluster removal: _remove_small_clusters with min_ratio = 0.02.    *)
(* size < total * 0.02 is decided as 50 * size < total, which is what the  *)
(* floating-point product gives for whole numbers of this size.            *)
(***************************************************************************)
ClusterH == 8

ClusterW == 10

MaxBlob == 56

\* mask[y, x]
MaskAt(img, p) == img.px[p][4] > 0

\* The neighbours the dy, dx loops reach, in loop order
NeighbourSteps ==
    <<<<-1, -1>>, <<-1, 0>>, <<-1, 1>>, <<0, -1>>, <<0, 1>>, <<1, -1>>, <<1, 0>>, <<1, 1>>>>

\* The neighbours of c that get the label and go on the stack, in loop order
NewNeighbours(img, labels, c) ==
    SelectSeq([k \in 1..Len(NeighbourSteps) |->
                  <<c[1] + NeighbourSteps[k][1], c[2] + NeighbourSteps[k][2]>>],
              LAMBDA n : /\ 0 <= n[1] /\ n[1] < img.h /\ 0 <= n[2] /\ n[2] < img.w
                         /\ MaskAt(img, n) /\ labels[n] = 0)

\* The while loop over the stack: the labels and the count at its end
RECURSIVE Flood(_, _, _, _, _)
Flood(img, labels, stack, id, count) ==
    IF stack = << >> THEN [labels |-> labels, count |-> count]
    ELSE CHOOSE r \in
           {Flood(img, [p \in DOMAIN labels |-> IF p \in Range(new) THEN id ELSE labels[p]],
                  Front(stack) \o new, id, count + 1) :
               new \in {NewNeighbours(img, labels, Last(stack))}} : TRUE

\* The y, x loops from pixel number k on (row by row): labels and sizes
RECURSIVE LabelFrom(_, _, _, _)
LabelFrom(img, k, labels, sizes) ==
    IF k >= img.h * img.w THEN [labels |-> labels, sizes |-> sizes]
    ELSE IF MaskAt(img, <<k \div img.w, k % img.w>>) /\ labels[<<k \div img.w, k % img.w>>] = 0
    THEN CHOOSE r \in
           {LabelFrom(img, k + 1, f.labels, Append(sizes, f.count)) :
               f \in {Flood(img, [labels EXCEPT ![<<k \div img.w, k % img.w>>] = Len(sizes) + 1],
                            <<<<k \div img.w, k % img.w>>>>, Len(sizes) + 1, 0)}} : TRUE
    ELSE LabelFrom(img, k + 1, labels, sizes)

RECURSIVE SeqSum(_)
SeqSum(s) == IF s = << >> THEN 0 ELSE Head(s) + SeqSum(Tail(s))

\* A threshold test that also erases a cluster of exactly 2%
BelowRatioOrEqual(size, total) == 50 * size <= total

\* size < total * min_ratio
BelowRatio(size, total) == 50 * size < total

\* The erasing loop
EraseSmall(img, l) ==
    IF Len(l.sizes) <= 1 THEN img
    ELSE [img EXCEPT !.px =
             [p \in DOMAIN img.px |->
                 IF l.labels[p] > 0 /\ BelowRatio(l.sizes[l.labels[p]], SeqSum(l.sizes))
                 THEN <<0, 0, 0, 0>> ELSE img.px[p]]]

\* _remove_small_clusters(img)
RemoveSmallClusters(img) ==
    IF \A p \in DOMAIN img.px : ~MaskAt(img, p) THEN img
    ELSE CHOOSE r \in
           {EraseSmall(img, l) :
               l \in {LabelFrom(img, 0, [p \in DOMAIN img.px |-> 0], << >>)}} : TRUE

\* The inputs: a blob of b pixels filling the columns from the left, and
\* islands in the two columns on the right
BlobPixels(b) == {<<k % ClusterH, k \div ClusterH>> : k \in 0..(b - 1)}

ClusterIslands ==
    {{<<0, ClusterW - 2>>},
     {<<2, ClusterW - 2>>, <<3, ClusterW - 1>>},
     {<<5, ClusterW - 1>>},
     {<<7, ClusterW - 2>>, <<7, ClusterW - 1>>}}

ClusterImage(b, islands, faint, clear) ==
    [h |-> ClusterH, w |-> ClusterW,
     px |-> [p \in (0..(ClusterH - 1)) \X (0..(ClusterW - 1)) |->
                IF p \in BlobPixels(b) THEN <<200, 10, 10, 255>>
                ELSE IF p \in UNION islands THEN faint
                ELSE clear]]

\* Images of single opaque pixels with a transparent pixel between any two:
\* the first n places of even row and column, row by row
SpeckleH == 11

SpeckleW == 17

MaxSpecks == 52

SpeckleImage(n) ==
    [h |-> SpeckleH, w |-> SpeckleW,
     px |-> [p \in (0..(SpeckleH - 1)) \X (0..(SpeckleW - 1)) |->
                IF /\ p[1] % 2 = 0 /\ p[2] % 2 = 0
                   /\ (p[1] \div 2) * ((SpeckleW + 1) \div 2) + p[2] \div 2 < n
                THEN <<10, 200, 10, 255>> ELSE <<0, 0, 0, 0>>]]

SpeckleImages == {SpeckleImage(n) : n \in (MaxSpecks - 3)..MaxSpecks}

ClusterImages ==
    {ClusterImage(b, islands, faint, clear) :
        b \in {0} \cup ((MaxBlob - 8)..MaxBlob), islands \in SUBSET ClusterIslands,
        faint \in {<<10, 200, 10, 255>>, <<5, 5, 5, 1>>},
        clear \in {<<0, 0, 0, 0>>, <<9, 9, 9, 0>>}}
      \cup SpeckleImages

ClusterStart ==
    /\ clImg \in ClusterImages
    /\ clOut = << >>
    /\ clPc = "call"

\* The call of _remove_small_clusters(img)
ClusterCall ==
    /\ clPc = "call"
    /\ clOut' = <<RemoveSmallClusters(clImg)>>
    /\ clPc' = "returned"
    /\ UNCHANGED clImg
    /\ ClusterOnly

ClusterInit ==
    ClusterStart /\ BatchIdle /\ TrsIdle /\ RasterIdle /\ XorIdle /\ LeaIdle /\ ParseIdle /\ BonesIdle /\ EffectIdle /\ FilterIdle /\ RenderIdle /\ TextureIdle /\ CameraIdle /\ IndexIdle /\ StandardizeIdle

ClusterNext == ClusterCall

SpecCluster == ClusterInit /\ [][ClusterNext]_vars

(***************************************************************************)
(* Claims about small-cluster removal                                      *)
(***************************************************************************)
OpaquePixels == {p \in DOMAIN clImg.px : clImg.px[p][4] > 0}

Touching(p, q) == p # q /\ Abs(p[1] - q[1]) <= 1 /\ Abs(p[2] - q[2]) <= 1

\* The opaque pixels joined to those of S by steps to one of the 8 neighbours
RECURSIVE GrownFrom(_)
GrownFrom(S) ==
    IF {q \in OpaquePixels \ S : \E p \in S : Touching(p, q)} = {} THEN S
    ELSE GrownFrom(S \cup {q \in OpaquePixels \ S : \E p \in S : Touching(p, q)})

\* The 8-connected components of the opaque pixels
RECURSIVE ClustersOf(_)
ClustersOf(S) ==
    IF S = {} THEN {}
    ELSE CHOOSE r \in {{g} \cup ClustersOf(S \ g) : g \in {GrownFrom({CHOOSE p \in S : TRUE})}} : TRUE

\* The pixels of the components with fewer pixels than 2% of all opaque ones
SmallClusterPixels ==
    UNION {C \in ClustersOf(OpaquePixels) : 50 * Cardinality(C) < Cardinality(OpaquePixels)}

\* C13: the function clears exactly the pixels of the 8-connected components
\* of the opaque pixels that hold fewer than 2% of all opaque pixels, and
\* returns every other pixel, opaque or transparent, as it was.
C13_SmallClustersErased ==
    clPc = "returned" =>
        /\ clOut[1].h = clImg.h /\ clOut[1].w = clImg.w
        /\ \E small \in {SmallClusterPixels} : \A p \in DOMAIN clImg.px :
               clOut[1].px[p] = IF p \in small THEN <<0, 0, 0, 0>> ELSE clImg.px[p]

\* A blob with a single-pixel island and a diagonal two-pixel island: the
\* single pixel is cleared, the pair and the blob stay
C13_Witness ==
    /\ clPc = "returned"
    /\ \E clusters \in {ClustersOf(OpaquePixels)} :
        /\ \E C \in clusters :
               Cardinality(C) = 1 /\ \A p \in C : clOut[1].px[p] = <<0, 0, 0, 0>>
        /\ \E C \in clusters :
               /\ Cardinality(C) = 2 /\ \A p \in C : clOut[1].px[p] = clImg.px[p]
               /\ \E p \in C, q \in C : p[1] # q[1] /\ p[2] # q[2]
        /\ \E C \in clusters :
               Cardinality(C) >= 40 /\ \A p \in C : clOut[1].px[p] = clImg.px[p]
    /\ \E p \in DOMAIN clImg.px : clImg.px[p] = <<9, 9, 9, 0>> /\ clOut[1].px[p] = <<9, 9, 9, 0>>

(***************************************************************************)
(* Texture loading: _build_texture_index, _resolve_texture, _load_texture  *)
(* and the default_color of the mesh loop of render_bmd.  A file is its    *)
(* extension, the length of the header before its image data, and the      *)
(* texels of that image; decoding the bytes left after the stripped header *)
(* succeeds only when the stripped length is the file's header length.     *)
(***************************************************************************)
MaxTexMeshes == 2

OzjHeader == 24

OztHeader == 4

\* The key and the path _build_texture_index keeps for a stem: the first file
\* found, replaced by an .ozt file when the kept one is an .ozj
TexIndex(files) ==
    [stem \in {p.stem : p \in DOMAIN files} |->
        IF [stem |-> stem, ext |-> "ozt"] \in DOMAIN files
        THEN [stem |-> stem, ext |-> "ozt"]
        ELSE [stem |-> stem, ext |-> "ozj"]]

\* _resolve_texture: the path in a one-element sequence, << >> for None
ResolveTexture(files, tex_name) ==
    IF tex_name = << >> THEN << >>
    ELSE IF Lower(PathStem(SlashesOf(tex_name))) \in DOMAIN TexIndex(files)
    THEN <<TexIndex(files)[Lower(PathStem(SlashesOf(tex_name)))]>>
    ELSE << >>

\* data[24:] for .ozj, data[4:] for .ozt
StrippedHeader(path) == IF path.ext = "ozj" THEN OzjHeader ELSE OztHeader

\* A decoder that finds the image wherever it starts
DecodeAnywhere(files, path) == [raised |-> FALSE, tex |-> files[path].image]

\* The try block: open, strip, Image.open(...).convert("RGBA"), np.array
DecodeFile(files, path) ==
    IF files[path].header = StrippedHeader(path)
    THEN [raised |-> FALSE, tex |-> files[path].image]
    ELSE [raised |-> TRUE, tex |-> << >>]

\* A cache that keeps decoded textures only
CacheDecodedOnly(cache, tex_name, tex) ==
    IF tex = << >> THEN cache
    ELSE [n \in DOMAIN cache \cup {tex_name} |-> IF n = tex_name THEN tex ELSE cache[n]]

\* _tex_cache[tex_name] = tex
CacheWith(cache, tex_name, tex) ==
    [n \in DOMAIN cache \cup {tex_name} |-> IF n = tex_name THEN tex ELSE cache[n]]

\* _load_texture: the texture returned (<< >> for None), the cache after the
\* call, whether an exception left the function, and whether the call got as
\* far as open(path)
LoadTexture(files, cache, tex_name) ==
    IF tex_name \in DOMAIN cache
    THEN [raised |-> FALSE, tex |-> cache[tex_name], cache |-> cache, opened |-> FALSE]
    ELSE IF ResolveTexture(files, tex_name) = << >>
    THEN [raised |-> FALSE, tex |-> << >>, cache |-> CacheWith(cache, tex_name, << >>),
          opened |-> FALSE]
    ELSE LET d == DecodeFile(files, ResolveTexture(files, tex_name)[1])
         IN  [raised |-> FALSE, tex |-> d.tex, cache |-> CacheWith(cache, tex_name, d.tex),
              opened |-> TRUE]

\* The inputs: two images, files with the right and with a foreign header
RedImage == <<<<200, 10, 10, 255>>, <<100, 30, 11, 255>>>>

BlueImage == <<<<10, 10, 200, 128>>>>

GreenImage == <<<<10, 200, 10, 255>>, <<10, 100, 10, 255>>, <<13, 0, 10, 0>>>>

TexFile(stem, ext, header, image) ==
    [path |-> [stem |-> stem, ext |-> ext], header |-> header, image |-> image]

TexFileRecords ==
    {TexFile(<<"a">>, "ozj", OzjHeader, RedImage), TexFile(<<"a">>, "ozj", OztHeader, BlueImage),
     TexFile(<<"a">>, "ozt", OztHeader, GreenImage),
     TexFile(<<"b">>, "ozt", OztHeader, BlueImage), TexFile(<<"b">>, "ozt", OzjHeader, RedImage)}

\* A directory: no two files of the same path
TexFileMenu ==
    {[p \in {f.path : f \in S} |-> CHOOSE f \in S : f.path = p] :
        S \in {T \in SUBSET TexFileRecords : \A f \in T, g \in T : f.path = g.path => f = g}}

TexNameMenu ==
    {<< >>,
     <<"a", ".", "j", "p", "g">>,
     <<"I", "t", "e", "m", "\\", "A", ".", "J", "P", "G">>,
     <<"d", "a", "t", "a", "/", "b", ".", "t", "g", "a">>,
     <<"c", ".", "j", "p", "g">>}

TextureStart ==
    /\ txFiles \in TexFileMenu
    /\ txMeshes \in SeqsUpTo(TexNameMenu, MaxTexMeshes)
    /\ tex_cache = << >>
    /\ txI = 1
    /\ txOut = << >>
    /\ txPc = "loop"

\* One mesh of the loop: tex = _load_texture(tex_path) and default_color
TextureMesh ==
    /\ txPc = "loop" /\ txI <= Len(txMeshes)
    /\ \E l \in {LoadTexture(txFiles, tex_cache, txMeshes[txI])} :
        IF l.raised
        THEN /\ txPc' = "raised"
             /\ UNCHANGED <<tex_cache, txI, txOut>>
        ELSE /\ tex_cache' = l.cache
             /\ txOut' = Append(txOut, [tex |-> l.tex, default_color |-> DefaultColor(l.tex),
                                        opened |-> l.opened])
             /\ txI' = txI + 1
             /\ txPc' = "loop"
    /\ UNCHANGED <<txFiles, txMeshes>>
    /\ TextureOnly

\* The end of the mesh loop
TextureDone ==
    /\ txPc = "loop" /\ txI > Len(txMeshes)
    /\ txPc' = "done"
    /\ UNCHANGED <<txFiles, txMeshes, tex_cache, txI, txOut>>
    /\ TextureOnly

TextureInit ==
    TextureStart /\ BatchIdle /\ TrsIdle /\ RasterIdle /\ XorIdle /\ LeaIdle /\ ParseIdle /\ BonesIdle /\ EffectIdle /\ FilterIdle /\ RenderIdle /\ ClusterIdle /\ CameraIdle /\ IndexIdle /\ StandardizeIdle

TextureNext == TextureMesh \/ TextureDone

SpecTexture == TextureInit /\ [][TextureNext]_vars

(***************************************************************************)
(* Claims about texture loading                                            *)
(***************************************************************************)
\* The file a reference resolves to, by the rule of the texture index: the
\* .ozt file of the lowercased stem if there is one, else its .ozj file
FileOfReference(tex_name) ==
    {f \in {txFiles[p] : p \in DOMAIN txFiles} :
        /\ tex_name # << >>
        /\ f.path.stem = Lower(PathStem(SlashesOf(tex_name)))
        /\ f.path.ext = "ozj" => [stem |-> f.path.stem, ext |-> "ozt"] \notin DOMAIN txFiles}

\* The file's image data does not start where the stripped header ends
Undecodable(f) == f.header # (IF f.path.ext = "ozj" THEN 24 ELSE 4)

NeutralGray == <<160, 160, 170, 255>>

\* The colour every triangle of a mesh of texture tex is shaded from, with
\* texture indices in range or out of range
FlatColors(tex, default_color) ==
    {IF HasUv(tex, uv_idx, 3) THEN SampleTexture(tex) ELSE default_color :
        uv_idx \in {<<0, 1, 2>>, <<0, 1, 3>>}}

\* C14 as stated: the loop never raises; a mesh left without texture is shaded
\* flat from the texture's own average RGB when its reference resolves to a
\* file that failed to decode, and from neutral gray when it resolves to none.
C14_AsStated ==
    /\ txPc # "raised"
    /\ \A k \in 1..Len(txOut) :
           txOut[k].tex = << >> =>
               \E color \in {IF FileOfReference(txMeshes[k]) = {} THEN NeutralGray
                             ELSE DefaultColor((CHOOSE f \in FileOfReference(txMeshes[k]) : TRUE).image)} :
                   FlatColors(txOut[k].tex, txOut[k].default_color) = {color}

\* C14: a missing or undecodable texture never raises out of the mesh loop:
\* _load_texture returns None exactly when the reference resolves to no file
\* or to a file that fails to decode, and every triangle of such a mesh is
\* shaded flat from neutral gray (160, 160, 170, 255) in both cases; a decoded
\* texture is returned as its image, and its average RGB at alpha 255 is the
\* colour of the triangles without texture coordinates in range.
C14_GrayWithoutTexture ==
    /\ txPc # "raised"
    /\ \A k \in 1..Len(txOut) :
        \E F \in {FileOfReference(txMeshes[k])} :
            IF F = {} \/ \E f \in F : Undecodable(f)
            THEN /\ txOut[k].tex = << >>
                 /\ FlatColors(txOut[k].tex, txOut[k].default_color) = {NeutralGray}
            ELSE /\ \A f \in F : txOut[k].tex = f.image
                 /\ txOut[k].default_color =
                        <<ChannelMean(txOut[k].tex, 1), ChannelMean(txOut[k].tex, 2),
                          ChannelMean(txOut[k].tex, 3), 255>>

\* A loop that met an undecodable file, then an unresolved reference
C14_Witness ==
    /\ txPc = "done" /\ Len(txOut) = 2
    /\ \E f \in FileOfReference(txMeshes[1]) : Undecodable(f)
    /\ txMeshes[2] # << >> /\ FileOfReference(txMeshes[2]) = {}
    /\ txOut[1].tex = << >> /\ txOut[2].tex = << >>

\* The value _load_texture has to give for a name, from the files alone
ValueOfReference(tex_name) ==
    IF \E f \in FileOfReference(tex_name) : ~Undecodable(f)
    THEN (CHOOSE f \in FileOfReference(tex_name) : TRUE).image
    ELSE << >>

\* C23: every call stores an entry for its name, the decoded pixels or 'no
\* texture', and returns what the cache then holds; the first call for a name
\* opens a file only when the name resolves to one, a later call for the name
\* opens none and returns the same value; two names of the same file get equal
\* values; and no step changes or removes an entry the cache holds.
C23_CacheNeverInvalidated ==
    /\ [](\A k \in 1..Len(txOut) :
             /\ txMeshes[k] \in DOMAIN tex_cache
             /\ tex_cache[txMeshes[k]] = txOut[k].tex
             /\ txOut[k].tex = ValueOfReference(txMeshes[k])
             /\ txOut[k].opened <=>
                    /\ FileOfReference(txMeshes[k]) # {}
                    /\ \A j \in 1..(k - 1) : txMeshes[j] # txMeshes[k])
    /\ [][\A n \in DOMAIN tex_cache :
              n \in DOMAIN tex_cache' /\ tex_cache'[n] = tex_cache[n]]_vars

\* Two calls for one name whose file fails to decode: the first opens the
\* file and stores 'no texture', the second returns it without opening
C23_Witness ==
    /\ txPc = "done" /\ Len(txOut) = 2
    /\ txMeshes[1] = txMeshes[2]
    /\ \E f \in FileOfReference(txMeshes[1]) : Undecodable(f)
    /\ txOut[1].opened /\ ~txOut[2].opened
    /\ tex_cache[txMeshes[1]] = << >> /\ txOut[2].tex = << >>

(***************************************************************************)
(* Camera path: _trs_view_matrix called on entries with rotY over several  *)
(* turns, below 0 and above 360, with and without a camera hint            *)
(***************************************************************************)
MaxRotY == 725

CameraEntries ==
    {MakeTrsEntry([rotX |-> x, rotY |-> y, rotZ |-> 15] @@ hint) :
        x \in {0, 180}, y \in (0 - MaxRotY)..MaxRotY,
        hint \in {<< >>, [camera |-> "noflip"], [camera |-> "correction"]}}

CameraStart ==
    /\ camEntry \in CameraEntries
    /\ camView = << >>
    /\ camPc = "call"

\* The call of _trs_view_matrix(trs_entry)
CameraCall ==
    /\ camPc = "call"
    /\ camView' = <<TrsViewMatrix(camEntry)>>
    /\ camPc' = "returned"
    /\ UNCHANGED camEntry
    /\ CameraOnly

CameraInit ==
    CameraStart /\ BatchIdle /\ TrsIdle /\ RasterIdle /\ XorIdle /\ LeaIdle /\ ParseIdle /\ BonesIdle /\ EffectIdle /\ FilterIdle /\ RenderIdle /\ ClusterIdle /\ TextureIdle /\ IndexIdle /\ StandardizeIdle

CameraNext == CameraCall

SpecCamera == CameraInit /\ [][CameraNext]_vars

(***************************************************************************)
(* Claims about the camera path                                            *)
(***************************************************************************)
\* The shortest way round the circle between two angles in degrees
CircleDistance(a, b) == SetMin({Abs(a - b + 360 * k) : k \in (-4)..4})

\* The path the claim's rule names for a hint and a rotY
PathByRule(hint, rotY) ==
    IF hint \in {"noflip", "correction"} THEN hint
    ELSE IF CircleDistance(rotY, 270) <= 45 \/ CircleDistance(rotY, 90) <= 45 THEN "correction"
    ELSE "noflip"

\* The matrix of a camera path for an entry's rotation
PathMatrix(path, entry) ==
    MatMul(IF path = "correction" THEN TRS_CORRECTION ELSE NOFLIP_CAM,
           MatMul(MatMul(Rz(entry.rotZ), Ry(entry.rotY)), Rx(entry.rotX)))

OtherPath(path) == IF path = "correction" THEN "noflip" ELSE "correction"

\* C20: the returned matrix is that of the path named by the hint when the
\* hint is 'noflip' or 'correction', whatever rotY is; without a hint it is
\* that of the correction path if and only if rotY, taken modulo 360 (below 0
\* and above 360 included), lies at most 45 degrees from 270 or from 90, the
\* boundary included, and that of the no-flip path otherwise.
C20_CameraPath ==
    camPc = "returned" =>
        \E path \in {PathByRule(Get(camEntry, "camera", "none"), camEntry.rotY)} :
            /\ camView[1] = PathMatrix(path, camEntry)
            /\ camView[1] # PathMatrix(OtherPath(path), camEntry)

\* A call without hint at rotY = -45, which is 315 on the circle and exactly
\* 45 degrees from 270: the correction path
C20_Witness ==
    /\ camPc = "returned"
    /\ "camera" \notin DOMAIN camEntry
    /\ camEntry.rotY = -45
    /\ camView[1] = PathMatrix("correction", camEntry)
    /\ camView[1] # PathMatrix("noflip", camEntry)

(***************************************************************************)
(* The texture index as module state: _tex_index, filled by                *)
(* _build_texture_index on the calls of _resolve_texture                   *)
(***************************************************************************)
MaxIndexCalls == 3

\* "if _tex_index: return": the truth value of the dict
IndexIsBuilt(index) == DOMAIN index # {}

IndexStart ==
    /\ ixFiles \in TexFileMenu
    /\ tex_index = << >>
    /\ ixScans = 0
    /\ ixCalls = 0
    /\ ixPath = << >>
    /\ ixPc = "run"

\* _resolve_texture("") returns None before the index is looked at
ResolveEmptyName ==
    /\ ixPc = "run" /\ ixCalls < MaxIndexCalls
    /\ ixPath' = << >>
    /\ ixCalls' = ixCalls + 1
    /\ UNCHANGED <<ixFiles, tex_index, ixScans, ixPc>>
    /\ IndexOnly

\* _resolve_texture(tex_name) for a name: _build_texture_index(), which
\* returns at once on a non-empty index and scans the directories otherwise,
\* then _tex_index.get(stem)
ResolveName ==
    /\ ixPc = "run" /\ ixCalls < MaxIndexCalls
    /\ \E tex_name \in TexNameMenu \ {<< >>} :
        \E index \in {IF IndexIsBuilt(tex_index) THEN tex_index ELSE TexIndex(ixFiles)} :
            /\ tex_index' = index
            /\ ixPath' = IF Lower(PathStem(SlashesOf(tex_name))) \in DOMAIN index
                         THEN <<index[Lower(PathStem(SlashesOf(tex_name)))]>>
                         ELSE << >>
    /\ ixScans' = IF IndexIsBuilt(tex_index) THEN ixScans ELSE ixScans + 1
    /\ ixCalls' = ixCalls + 1
    /\ UNCHANGED <<ixFiles, ixPc>>
    /\ IndexOnly

IndexInit ==
    IndexStart /\ BatchIdle /\ TrsIdle /\ RasterIdle /\ XorIdle /\ LeaIdle /\ ParseIdle /\ BonesIdle /\ EffectIdle /\ FilterIdle /\ RenderIdle /\ ClusterIdle /\ TextureIdle /\ CameraIdle /\ StandardizeIdle

IndexNext == ResolveEmptyName \/ ResolveName

SpecIndex == IndexInit /\ [][IndexNext]_vars

(***************************************************************************)
(* Claims about the texture index                                          *)
(***************************************************************************)
\* C22 as stated: once a first scan has completed no later call scans the
\* directories again or changes the index, whatever the scan found.
C22_AsStated ==
    /\ [](ixScans <= 1)
    /\ [][ixScans >= 1 => (ixScans' = ixScans /\ tex_index' = tex_index)]_vars

(***************************************************************************)
(* Claims about the bone and action records of parse_bmd                   *)
(***************************************************************************)
\* A step of the bone loop that recorded a bone
BoneRecorded == pPc = "bones" /\ Len(bones') = Len(bones) + 1

DummyRecord == [parent |-> -1, is_dummy |-> TRUE,
                bind_position |-> <<<<0, 0, 0, 0>>, <<0, 0, 0, 0>>, <<0, 0, 0, 0>>>>,
                bind_rotation |-> <<<<0, 0, 0, 0>>, <<0, 0, 0, 0>>, <<0, 0, 0, 0>>>>]

\* What a bone step has to do when the actions that count are those with a
\* key frame count in Counted: the bytes taken and the bone recorded
BoneStepBy(Counted) ==
    IF data[off + 1] > 0
    THEN off' = off + 1 /\ Last(bones') = DummyRecord
    ELSE /\ off' = off + 1 + 32 + 2
                   + SeqSum([a \in 1..Len(actions_keys) |->
                                IF actions_keys[a] \in Counted THEN 24 * actions_keys[a] ELSE 0])
         /\ Last(bones').is_dummy = FALSE
         /\ Last(bones').parent = I16At(data, off + 33)
         /\ IF actions_keys # << >> /\ actions_keys[1] \in Counted
            THEN /\ Last(bones').bind_position = Vec3At(data, off + 35)
                 /\ Last(bones').bind_rotation = Vec3At(data, off + 35 + 12 * actions_keys[1])
            ELSE /\ Last(bones').bind_position = DummyRecord.bind_position
                 /\ Last(bones').bind_rotation = DummyRecord.bind_rotation

\* No step changes a bone already recorded
BonesKept == Len(bones') >= Len(bones) /\ SubSeq(bones', 1, Len(bones)) = bones

C27_AsStated == [][off' >= off]_vars

(***************************************************************************)
(* Orientation of a standardized icon: _standardize_item_image from the    *)
(* rotated image on, with the default target angle of -45 degrees.  The    *)
(* principal-axis rotation before it is a bicubic resampling; its result   *)
(* is taken as any image.  Coordinates relative to the midpoint cx, cy are *)
(* doubled to stay whole: proj and perp are (a + b) and (b - a) times      *)
(* cos(45) / 2, a factor both halves share.                                *)
(***************************************************************************)
StdSize == 8

\* Twice cx, cy: rot_xs.min() + rot_xs.max() and rot_ys.min() + rot_ys.max()
Mid2(px) ==
    <<SetMin({p[1] : p \in px}) + SetMax({p[1] : p \in px}),
      SetMin({p[2] : p \in px}) + SetMax({p[2] : p \in px})>>

\* proj < 0.  diag[0] = cos(45 deg) rounds to 0.7071067811865476 and
\* diag[1] = sin(45 deg) to 0.7071067811865475, so a pixel with
\* (x - cx) = -(y - cy) has a projection of the sign of (x - cx)
ProjIsNegative(m, p) ==
    \/ (2 * p[2] - m[2]) + (2 * p[1] - m[1]) < 0
    \/ (2 * p[2] - m[2]) + (2 * p[1] - m[1]) = 0 /\ 2 * p[2] - m[2] < 0

\* perp, times 2 / cos(45 deg)
Perp2(m, p) == (2 * p[1] - m[1]) - (2 * p[2] - m[2])

\* neg_half and pos_half
NegHalf(px, m) == {p \in px : ProjIsNegative(m, p)}

PosHalf(px, m) == {p \in px : ~ProjIsNegative(m, p)}

\* The sum of perp ** e over the pixels of S
RECURSIVE PerpSum(_, _, _)
PerpSum(m, S, e) ==
    IF S = {} THEN 0
    ELSE (IF e = 1 THEN Perp2(m, CHOOSE p \in S : TRUE)
          ELSE Perp2(m, CHOOSE p \in S : TRUE) * Perp2(m, CHOOSE p \in S : TRUE))
         + PerpSum(m, S \ {CHOOSE p \in S : TRUE}, e)

\* np.std(perp[half]) ** 2 as a fraction, or 0 for a half of 10 pixels or fewer
SpreadSq(m, half) ==
    IF Cardinality(half) > 10
    THEN [num |-> Cardinality(half) * PerpSum(m, half, 2) - PerpSum(m, half, 1) * PerpSum(m, half, 1),
          den |-> Cardinality(half) * Cardinality(half)]
    ELSE [num |-> 0, den |-> 1]

\* A comparison without the margin of 20%
SpreadExceedsAtAll(br, tl) == br.num * tl.den > tl.num * br.den

\* spread_br > spread_tl * 1.2, on the squares
SpreadExceeds(br, tl) == 25 * br.num * tl.den > 36 * tl.num * br.den

\* need_flip
NeedFlip(px, flag) ==
    CHOOSE r \in
      {IF flag THEN ~auto ELSE auto :
          auto \in {SpreadExceeds(SpreadSq(m, PosHalf(px, m)), SpreadSq(m, NegHalf(px, m))) :
                       m \in {Mid2(px)}}} : TRUE

\* rotated.rotate(180): the transpose of both axes
Rotate180(img) == [img EXCEPT !.px = {<<img.h - 1 - p[1], img.w - 1 - p[2]>> : p \in img.px}]

\* x1, y1, x2 + 1, y2 + 1
CropBox(px) ==
    <<SetMin({p[2] : p \in px}), SetMin({p[1] : p \in px}),
      SetMax({p[2] : p \in px}) + 1, SetMax({p[1] : p \in px}) + 1>>

\* The inputs: a band along the diagonal from the top-left to the
\* bottom-right, of half-width tl_w before the middle and br_w after it,
\* with some pixels away from it, without its first rows and columns
StdBand(tl_w, br_w) ==
    {p \in (0..(StdSize - 1)) \X (0..(StdSize - 1)) :
        Abs(p[1] - p[2]) <= (IF p[1] + p[2] < StdSize - 1 THEN tl_w ELSE br_w)}

StdExtras ==
    {{}, {<<1, 5>>}, {<<6, 2>>}, {<<1, 5>>, <<5, 1>>}, {<<2, 6>>, <<6, 2>>}}

StdImage(tl_w, br_w, extra, trim) ==
    [h |-> StdSize, w |-> StdSize,
     px |-> {p \in StdBand(tl_w, br_w) \cup extra : p[1] >= trim /\ p[2] >= trim}]

\* The images that pass `if len(xs) < 10: return img`, and one that lost
\* every opaque pixel in the rotation
StdImages ==
    {img \in {StdImage(tl_w, br_w, extra, trim) :
                 tl_w \in 0..3, br_w \in 0..3, extra \in StdExtras, trim \in 0..1} :
        Cardinality(img.px) >= 10}
      \cup {[h |-> StdSize, w |-> StdSize, px |-> {}]}

StandardizeStart ==
    /\ rotated \in StdImages
    /\ force_flip \in BOOLEAN
    /\ need_flip = << >>
    /\ stOut = << >>
    /\ stPc = "orient"

\* if len(rot_xs) == 0: return img
StandardizeNothing ==
    /\ stPc = "orient"
    /\ rotated.px = {}
    /\ stPc' = "returned_img"
    /\ UNCHANGED <<rotated, force_flip, need_flip, stOut>>
    /\ StandardizeOnly

\* The decision, the turn by 180 degrees and the crop box
StandardizeOrient ==
    /\ stPc = "orient"
    /\ rotated.px # {}
    /\ \E flip \in {NeedFlip(rotated.px, force_flip)} :
           /\ need_flip' = <<flip>>
           /\ \E turned \in {IF flip THEN Rotate180(rotated) ELSE rotated} :
                  stOut' = <<[img |-> turned, box |-> CropBox(turned.px)]>>
    /\ stPc' = "oriented"
    /\ UNCHANGED <<rotated, force_flip>>
    /\ StandardizeOnly

StandardizeInit ==
    StandardizeStart /\ BatchIdle /\ TrsIdle /\ RasterIdle /\ XorIdle /\ LeaIdle /\ ParseIdle /\ BonesIdle /\ EffectIdle /\ FilterIdle /\ RenderIdle /\ ClusterIdle /\ TextureIdle /\ CameraIdle /\ IndexIdle

StandardizeNext == StandardizeNothing \/ StandardizeOrient

SpecStandardize == StandardizeInit /\ [][StandardizeNext]_vars

(***************************************************************************)
(* Claims about the orientation of a standardized icon                     *)
(***************************************************************************)
\* The variance of perp over the pixels of S, times 8 * Cardinality(S) ** 2,
\* from the squared deviations
RECURSIVE DeviationSum(_, _, _, _)
DeviationSum(m, S, n, total) ==
    IF S = {} THEN 0
    ELSE (n * Perp2(m, CHOOSE p \in S : TRUE) - total)
           * (n * Perp2(m, CHOOSE p \in S : TRUE) - total)
         + DeviationSum(m, S \ {CHOOSE p \in S : TRUE}, n, total)

VarianceOf(m, S) ==
    IF S = {} THEN [num |-> 0, den |-> 1]
    ELSE [num |-> DeviationSum(m, S, Cardinality(S), PerpSum(m, S, 1)) \div Cardinality(S),
          den |-> Cardinality(S) * Cardinality(S)]

\* The spread of a side as the code measures it: 0 when it has 10 pixels or fewer
MeasuredSpread(m, S) == IF Cardinality(S) > 10 THEN VarianceOf(m, S) ELSE [num |-> 0, den |-> 1]

\* The bottom-right spread is more than 1.2 times the top-left one
BottomRightWider(px) ==
    \E m \in {Mid2(px)} :
        \E br \in {MeasuredSpread(m, PosHalf(px, m))}, tl \in {MeasuredSpread(m, NegHalf(px, m))} :
            25 * br.num * tl.den > 36 * tl.num * br.den

\* The bottom-right spread is greater than the top-left one
BottomRightGreater(px) ==
    \E m \in {Mid2(px)} :
        \E br \in {VarianceOf(m, PosHalf(px, m))}, tl \in {VarianceOf(m, NegHalf(px, m))} :
            br.num * tl.den > tl.num * br.den

\* The image turned by 180 degrees
Turned(img) == [h |-> img.h, w |-> img.w,
                px |-> {p \in (0..(img.h - 1)) \X (0..(img.w - 1)) :
                           <<img.h - 1 - p[1], img.w - 1 - p[2]>> \in img.px}]

\* C25 as stated: the content is turned exactly when the bottom-right spread
\* is greater than the top-left spread, and the other way round when the
\* force-flip flag is set.
C25_AsStated ==
    stPc = "oriented" =>
        /\ need_flip[1] = (BottomRightGreater(rotated.px) # force_flip)
        /\ stOut[1].img = IF need_flip[1] THEN Turned(rotated) ELSE rotated

\* C25: the content is turned by a further 180 degrees exactly when the
\* spread of the bottom-right half is more than 1.2 times the spread of the
\* top-left half, the spread of a half of 10 opaque pixels or fewer counting
\* as 0; the force-flip flag inverts the decision; the turn takes every pixel
\* of the bottom-right half, but one at the midpoint itself, to the top-left
\* half of the result, and every pixel of the top-left half to its
\* bottom-right half.
C25_FlipBeyondMargin ==
    stPc = "oriented" =>
        /\ need_flip[1] = (BottomRightWider(rotated.px) # force_flip)
        /\ stOut[1].img = IF need_flip[1] THEN Turned(rotated) ELSE rotated
        /\ need_flip[1] =>
               \A p \in rotated.px :
                   \/ <<2 * p[1], 2 * p[2]>> = Mid2(rotated.px)
                   \/ ProjIsNegative(Mid2(stOut[1].img.px),
                                     <<rotated.h - 1 - p[1], rotated.w - 1 - p[2]>>)
                        = ~ProjIsNegative(Mid2(rotated.px), p)

\* A band wider after the middle by more than the margin, with more than 10
\* pixels on each side, is turned without the flag
C25_Witness ==
    /\ stPc = "oriented"
    /\ ~force_flip
    /\ BottomRightWider(rotated.px)
    /\ Cardinality(NegHalf(rotated.px, Mid2(rotated.px))) > 10
    /\ need_flip[1]
    /\ stOut[1].img = Turned(rotated)
    /\ stOut[1].img # rotated

(***************************************************************************)
(* Claim about what small-cluster removal leaves                           *)
(***************************************************************************)
\* C26: for every image with at least one opaque pixel, whatever the number
\* and the sizes of its 8-connected opaque components, the image returned by
\* _remove_small_clusters has at least one opaque pixel.
C26_AsStated ==
    (clPc = "returned" /\ \E p \in DOMAIN clImg.px : clImg.px[p][4] > 0)
        => \E p \in DOMAIN clOut[1].px : clOut[1].px[p][4] > 0

=============================================================================
